---- MODULE Spec2Model ----
(***************************************************************************)
(* Telegram group-chat analytics bot: message ingestion (users/messages    *)
(* tables), the statistics cache (cache-aside over Redis) and the pure     *)
(* helpers of StatsService (cache key, date range).                        *)
(***************************************************************************)
EXTENDS Integers, Sequences, FiniteSets, TLC

(***************************************************************************)
(* Bounds of the model.                                                    *)
(***************************************************************************)
NumHandlers == 2      \* text handlers that may be in flight at once
MaxUpdates == 2       \* text updates delivered in one behaviour
NumStatsCalls == 1    \* statistics calls that may be in flight at once
MaxRequests == 2      \* statistics calls made in one behaviour
MaxTicks == 2         \* clock ticks in one behaviour
TickSeconds == 600    \* seconds the clock advances in one tick
MaxCommands == 2      \* /analyze commands and analyzeUser calls in one behaviour
MaxDigests == 2       \* /digest commands in one behaviour

(***************************************************************************)
(* JavaScript / SQL values.                                                *)
(***************************************************************************)
NULL == "<null>"
UNDEFINED == "<undefined>"

\* `x || null` on a string-or-absent value: undefined, null and '' are falsy.
OrNull(v) == IF v \in {UNDEFINED, NULL, ""} THEN NULL ELSE v

(***************************************************************************)
(* Telegram updates delivered to bot.on('text').  A text is a sequence of  *)
(* characters; a chat has an id and a type; `from` may be absent.          *)
(***************************************************************************)
Texts == { <<"h", "i">>, <<"/", "s">> }

Chats == { [id |-> -100, type |-> "group"],
           [id |-> -200, type |-> "supergroup"],
           [id |-> 7,    type |-> "private"] }

NoFrom == [id |-> 0, username |-> UNDEFINED, first_name |-> UNDEFINED,
           last_name |-> UNDEFINED, present |-> FALSE]

Senders == { NoFrom,
             [id |-> 5, username |-> UNDEFINED, first_name |-> "Ann",
              last_name |-> "", present |-> TRUE],
             [id |-> 5, username |-> "ann", first_name |-> "Anna",
              last_name |-> "Lee", present |-> TRUE],
             [id |-> 6, username |-> "", first_name |-> "Bob",
              last_name |-> UNDEFINED, present |-> TRUE] }

MessageIds == {1, 2}

Updates == [message_id : MessageIds, chat : Chats, from : Senders, text : Texts]

NoUpdate == [message_id |-> 0, chat |-> [id |-> 0, type |-> "none"],
             from |-> NoFrom, text |-> <<>>]

Handlers == 1..NumHandlers

(***************************************************************************)
(* JavaScript Date, in local time without daylight-saving transitions: a   *)
(* calendar day (month 0..11, date 1..31) and the seconds since midnight.  *)
(***************************************************************************)
SecondsPerDay == 86400

IsLeapYear(y) == (y % 4 = 0 /\ y % 100 # 0) \/ y % 400 = 0

DaysInMonth(y, m) ==
    IF m = 1 THEN (IF IsLeapYear(y) THEN 29 ELSE 28)
    ELSE IF m \in {3, 5, 8, 10} THEN 30 ELSE 31

\* MakeDay: a month outside 0..11 carries into the year ...
CarryMonth(y, m) == [year |-> y + (m \div 12), month |-> m % 12]

\* ... and a date outside the month carries into the neighbouring months.
RECURSIVE CarryDate(_, _, _)
CarryDate(y, m, d) ==
    IF d < 1
      THEN LET p == CarryMonth(y, m - 1)
           IN  CarryDate(p.year, p.month, d + DaysInMonth(p.year, p.month))
      ELSE IF d > DaysInMonth(y, m)
             THEN LET n == CarryMonth(y, m + 1)
                  IN  CarryDate(n.year, n.month, d - DaysInMonth(y, m))
             ELSE [year |-> y, month |-> m, date |-> d]

\* new Date(year, month, date) plus a time of day; setDate and setMonth
\* rebuild the date the same way.
MakeDate(y, m, d, secs) ==
    LET ym  == CarryMonth(y, m)
        ymd == CarryDate(ym.year, ym.month, d)
    IN  [year |-> ymd.year, month |-> ymd.month, date |-> ymd.date, secs |-> secs]

\* a <= b on Dates
DateLE(a, b) ==
    \/ a.year < b.year
    \/ a.year = b.year /\ a.month < b.month
    \/ a.year = b.year /\ a.month = b.month /\ a.date < b.date
    \/ a.year = b.year /\ a.month = b.month /\ a.date = b.date /\ a.secs <= b.secs

\* The Date n seconds after a.
AddSeconds(a, n) ==
    MakeDate(a.year, a.month, a.date + ((a.secs + n) \div SecondsPerDay),
             (a.secs + n) % SecondsPerDay)

(***************************************************************************)
(* StatsService helpers.                                                   *)
(***************************************************************************)
\* An optional number argument: << >> when omitted, <<n>> when given.
Omitted == << >>

\* if (userId): an omitted argument and the number 0 are falsy.
IsGiven(userId) == Len(userId) = 1
Truthy(userId) == Len(userId) = 1 /\ userId[1] # 0

\* StatsService.getCacheKey(chatId, period, userId?)
getCacheKey(chatId, period, userId) ==
    IF Truthy(userId)
      THEN "stats:chat:" \o ToString(chatId) \o ":user:" \o ToString(userId[1])
               \o ":period:" \o period
      ELSE "stats:chat:" \o ToString(chatId) \o ":period:" \o period

\* {} : an object without startDate and endDate
NoRange == << >>

\* StatsService.getDateRange(period), with `now` the value of new Date()
getDateRangeWeekAhead(period, at) ==
    IF period = "today"
      THEN [startDate |-> MakeDate(at.year, at.month, at.date, 0), endDate |-> at]
    ELSE IF period = "week"
      THEN [startDate |-> MakeDate(at.year, at.month, at.date + 7, at.secs),
            endDate |-> at]
    ELSE IF period = "month"
      THEN [startDate |-> MakeDate(at.year, at.month - 1, at.date, at.secs),
            endDate |-> at]
    ELSE NoRange
getDateRange(period, at) ==
    IF period = "today"
      THEN [startDate |-> MakeDate(at.year, at.month, at.date, 0), endDate |-> at]
    ELSE IF period = "week"
      THEN [startDate |-> MakeDate(at.year, at.month, at.date - 7, at.secs),
            endDate |-> at]
    ELSE IF period = "month"
      THEN [startDate |-> MakeDate(at.year, at.month - 1, at.date, at.secs),
            endDate |-> at]
    ELSE NoRange

\* Arguments the pure helpers are exercised on.
KeyChatIds == {-100, 1, 12}
KeyPeriods == {"today", "week", "all"}
KeyUserIds == {Omitted, <<0>>, <<2>>, <<23>>}
KeyInputs == [chatId : KeyChatIds, period : KeyPeriods, userId : KeyUserIds]

RangePeriods == {"today", "week", "month", "all", "year"}
RangeYears == {2023, 2024}
RangeTimes == {0, 43200, 86399}
RangeNows ==
    { [year |-> y, month |-> m, date |-> d, secs |-> t] :
        y \in RangeYears, m \in 0..11, d \in 1..31, t \in RangeTimes }

\* The clock when the bot starts: 31 March 2024, 23:50:00.
StartTime == [year |-> 2024, month |-> 2, date |-> 31, secs |-> 85800]

VARIABLES
    users,        \* table users: set of rows
    messages,     \* table messages: set of rows
    usersSeq,     \* users.id SERIAL sequence (last value handed out)
    messagesSeq,  \* messages.id SERIAL sequence (last value handed out)
    now,          \* wall clock, seconds
    pc,           \* position of each text handler
    upd,          \* the update each text handler is processing
    user,         \* the row returned by User.findOrCreate
    ret,          \* what Message.create returned (a row or NULL)
    outcome,      \* how the handler ended: "none", "skipped", "saved", "error"
    delivered,    \* number of updates delivered so far
    inbox,        \* the updates Telegram may deliver
    serial,       \* TRUE: handlers run one after another (a sequence of calls)
    lastCall,     \* telegram_id -> the `from` of the most recent findOrCreate call
    returnedIds,  \* telegram_id -> set of users.id returned by findOrCreate
    keyArgs,      \* getCacheKey: the two argument lists under comparison
    keyOut,       \* getCacheKey: the two keys produced (<< >> before the call)
    rangeArgs,    \* getDateRange: the period and the value of new Date()
    rangeOut,     \* getDateRange: << >> before the call, <<result>> after
    cache,        \* Redis: set of entries (key, value, expiresAt)
    st,           \* state of each getChatStats / getUserStats call
    asked,        \* number of statistics calls made so far
    ticks,        \* number of clock ticks so far
    promptArgs,   \* prompt builder: << >> or <<[builder, messages]>>
    promptOut,    \* prompt builder: << >> before the call, <<prompt>> after
    parseArgs,    \* response parser: << >> or <<responseText>>
    parseOut,     \* response parser: << >> before the call, <<record>> after
    keys,         \* process.env: which provider credentials are configured
    geminiModel,  \* GeminiService.model (static): "none" or a model name
    an,           \* state of the /analyze command handler
    ad,           \* state of the running analyzeUser call
    dg,           \* state of the running DigestService.generateWithLLM call
    dh,           \* state of the /digest command handler
    web,          \* state of the POST /api/analyze handler
    recentAnalyses,          \* the array recentAnalyses of analyze/route.ts
    overviewRecentAnalyses,  \* the array recentAnalyses of overview/route.ts
    ov,           \* the last answer of GET /api/overview (<< >> before the first)
    posted,       \* the answers of POST /api/analyze so far, oldest first
    menu          \* state of the /stats handlers and of the menu message

ingestVars == << users, messages, usersSeq, messagesSeq, pc, upd, user,
                ret, outcome, delivered, lastCall, returnedIds >>

envVars == << serial, inbox >>

pureVars == << keyArgs, keyOut, rangeArgs, rangeOut >>

statsVars == << cache, st, asked, ticks >>

textVars == << promptArgs, promptOut, parseArgs, parseOut >>

llmVars == << keys, geminiModel, an, ad, dg >>

webVars == << web, recentAnalyses, overviewRecentAnalyses, ov, posted >>

uiVars == << dh, webVars, menu >>

vars == << ingestVars, now, envVars, pureVars, statsVars, textVars, llmVars, uiVars >>

TelegramIds == { s.id : s \in { x \in Senders : x.present } }

NoUser == [id |-> 0, telegram_id |-> 0, username |-> NULL,
           first_name |-> NULL, last_name |-> NULL]

(***************************************************************************)
(* bot.on('text') guards.                                                  *)
(***************************************************************************)
\* message.text.startsWith('/')
StartsWithSlash(text) == Len(text) > 0 /\ text[1] = "/"

NeverCommand(text) == FALSE
IsCommand(text) == StartsWithSlash(text)

IsGroupChat(chat) == chat.type = "group" \/ chat.type = "supergroup"

\* The update passes every guard of the handler and reaches User.findOrCreate.
Persisted(u) == ~IsCommand(u.text) /\ IsGroupChat(u.chat) /\ u.from.present

(***************************************************************************)
(* SQL statements, each executed atomically by the database.               *)
(***************************************************************************)
\* SELECT * FROM users WHERE telegram_id = $1
SelectUserByTelegramId(tid) == { r \in users : r.telegram_id = tid }

\* The data object the handler passes to User.findOrCreate.
FindOrCreateData(from) ==
    [telegram_id |-> from.id,
     username    |-> OrNull(from.username),
     first_name  |-> OrNull(from.first_name),
     last_name   |-> OrNull(from.last_name)]

\* UPDATE users SET username, first_name, last_name WHERE telegram_id = $4
UpdateKeepsFirstName(rows, data) ==
    { IF r.telegram_id = data.telegram_id
        THEN [r EXCEPT !.username = OrNull(data.username),
                       !.last_name = OrNull(data.last_name)]
        ELSE r : r \in rows }
UpdateUserRows(rows, data) ==
    { IF r.telegram_id = data.telegram_id
        THEN [r EXCEPT !.username = OrNull(data.username),
                       !.first_name = OrNull(data.first_name),
                       !.last_name = OrNull(data.last_name)]
        ELSE r : r \in rows }

\* The row INSERT INTO users ... RETURNING * produces.
NewUserRow(id, data) ==
    [id          |-> id,
     telegram_id |-> data.telegram_id,
     username    |-> OrNull(data.username),
     first_name  |-> OrNull(data.first_name),
     last_name   |-> OrNull(data.last_name)]

\* UNIQUE(telegram_message_id, chat_id)
Conflicts(rows, data) ==
    { r \in rows : r.telegram_message_id = data.telegram_message_id
                   /\ r.chat_id = data.chat_id }

NewMessageRow(id, data, at) ==
    [id |-> id, user_id |-> data.user_id,
     telegram_message_id |-> data.telegram_message_id,
     chat_id |-> data.chat_id, text |-> data.text, created_at |-> at]

\* INSERT INTO messages ... ON CONFLICT (telegram_message_id, chat_id)
\* DO NOTHING RETURNING *  : the rows of the table afterwards.
InsertOverwriting(rows, id, data, at) ==
    (rows \ Conflicts(rows, data)) \cup {NewMessageRow(id, data, at)}
InsertMessage(rows, id, data, at) ==
    IF Conflicts(rows, data) = {}
      THEN rows \cup {NewMessageRow(id, data, at)}
      ELSE rows

\* result.rows of that statement: the inserted row, or no row on conflict.
\* Message.create returns result.rows[0] || null; << >> stands for null.
InsertMessageReturning(rows, id, data, at) ==
    IF Conflicts(rows, data) = {} THEN << NewMessageRow(id, data, at) >> ELSE << >>


(***************************************************************************)
(* Message model: the aggregate queries, each one SQL statement.           *)
(***************************************************************************)
\* WHERE m.chat_id = $1 AND m.created_at >= $2 AND m.created_at <= $3,
\* the date conditions only when the range has the bound.
InFilter(m, chatId, range) ==
    /\ m.chat_id = chatId
    /\ "startDate" \in DOMAIN range => DateLE(range.startDate, m.created_at)
    /\ "endDate" \in DOMAIN range => DateLE(m.created_at, range.endDate)

\* Message.getStats({...dateRange, chatId})
getStats(msgs, chatId, range) ==
    LET sel == { m \in msgs : InFilter(m, chatId, range) }
    IN  [totalMessages |-> Cardinality({ m.id : m \in sel }),
         totalUsers    |-> Cardinality({ m.user_id : m \in sel })]

\* Message.countByUserId(user.id, {...dateRange, chatId})
countByUserId(msgs, userId, chatId, range) ==
    Cardinality({ m \in msgs : m.user_id = userId /\ InFilter(m, chatId, range) })

\* The rows of ... FROM messages m JOIN users u ON m.user_id = u.id WHERE ...
\* GROUP BY m.user_id, u.username, u.first_name
TopUserRows(msgs, usrs, chatId, range) ==
    { [user_id |-> u.id,
       count |-> Cardinality({ m \in msgs : m.user_id = u.id /\ InFilter(m, chatId, range) }),
       username |-> u.username,
       first_name |-> u.first_name] :
        u \in { x \in usrs : \E m \in msgs : m.user_id = x.id /\ InFilter(m, chatId, range) } }

Min(a, b) == IF a <= b THEN a ELSE b

\* Message.getTopUsersByMessageCount(limit, {...dateRange, chatId}):
\* ORDER BY count DESC LIMIT $n.  The order of rows with equal counts is
\* not determined by the statement: every order is a possible result.
getTopUsersByMessageCount(msgs, usrs, limit, chatId, range) ==
    LET rows == TopUserRows(msgs, usrs, chatId, range)
        n    == Cardinality(rows)
        ordered == { s \in [1..n -> rows] :
                       /\ \A i, j \in 1..n : i # j => s[i] # s[j]
                       /\ \A i, j \in 1..n : i < j => s[i].count >= s[j].count }
    IN  { SubSeq(s, 1, Min(limit, n)) : s \in ordered }

(***************************************************************************)
(* Stats cache (Redis) and StatsService.                                   *)
(***************************************************************************)
CACHE_TTL == 1200

TopLimit == 10

\* JSON.stringify / JSON.parse of a result made of numbers, strings, null,
\* arrays and objects: the text carries the value, parse gives it back.
JsonStringify(v) == [json |-> v]
JsonParse(text) == text.json

\* An entry written by setEx(key, ttl, value) is gone ttl seconds later.
Unexpired(e, at) == ~DateLE(e.expiresAt, at)

\* redisClient.get(key): the unexpired entries under the key (none or one)
CacheLookup(entries, key, at) == { e \in entries : e.key = key /\ Unexpired(e, at) }

\* redisClient.setEx(key, ttl, value): the entries afterwards
CacheStore(entries, key, value, at, meta) ==
    { e \in entries : e.key # key }
        \cup { [key |-> key, value |-> value,
                expiresAt |-> AddSeconds(at, CACHE_TTL), meta |-> meta] }

\* try { cached = get(key); if (cached) return JSON.parse(cached) } catch {}
\* err is "get" when the read raises, "parse" when JSON.parse raises.
ReadAlwaysMisses(found, err) == "miss"
CacheReadOutcome(found, err) ==
    IF err = "none" /\ found # {} THEN "hit" ELSE "miss"

\* try { await setEx(...) } catch (error) { console.error(...) }; return result
WriteErrorRethrown == "threw"
AfterCacheWriteError == "returned"

StatsCalls == 1..NumStatsCalls
StatsChatIds == {-100}
StatsPeriods == {"today", "all"}

NoMeta == [kTop |-> 0, kStats |-> 0, kUser |-> 0, rangeAt |-> StartTime,
           queriedAt |-> StartTime, writtenAt |-> StartTime]

IdleCall ==
    [pc |-> "idle", kind |-> "none", chatId |-> 0, period |-> "", userId |-> 0,
     key |-> "", rangeAt |-> StartTime, top |-> << >>, topDone |-> FALSE,
     stats |-> [totalMessages |-> 0, totalUsers |-> 0], statsDone |-> FALSE,
     userRow |-> NoUser, result |-> << >>, source |-> "none", outcome |-> "none",
     readError |-> "none", writeError |-> FALSE, queries |-> 0, writes |-> 0,
     meta |-> NoMeta, returnedAt |-> StartTime, kReturn |-> 0]

(***************************************************************************)
(* Initial state: empty tables, every handler idle.                        *)
(***************************************************************************)
(***************************************************************************)
(* The response parser (GeminiService / DeepSeekService                    *)
(* parseAnalysisResponse, the same lines inlined in QwenService.analyzeUser *)
(* and the dashboard's parseAnalysisResponse).  A text is a sequence of    *)
(* characters; a word of letters is kept as one character-like token.  The *)
(* five labels are written here in Latin letters:                          *)
(*   "style" = 'стиль', "topics" = 'темы', "activity" = 'активность',      *)
(*   "tone" = 'тональность', "features" = 'особенности'.                   *)
(***************************************************************************)
LabelWords == << "style", "topics", "activity", "tone", "features" >>

\* The capitalised and the upper-case spelling of each label word.
Capitalised == [style |-> "Style", topics |-> "Topics", activity |-> "Activity",
                tone |-> "Tone", features |-> "Features"]

UpperCased == [style |-> "STYLE", topics |-> "TOPICS", activity |-> "ACTIVITY",
               tone |-> "TONE", features |-> "FEATURES"]

\* String.prototype.toLowerCase on one token
ToLowerCase(c) ==
    IF \E i \in DOMAIN LabelWords : c \in { Capitalised[LabelWords[i]], UpperCased[LabelWords[i]] }
      THEN LabelWords[CHOOSE i \in DOMAIN LabelWords :
                         c \in { Capitalised[LabelWords[i]], UpperCased[LabelWords[i]] }]
      ELSE c

\* What trim() and the regular expression's \s take for white space.
WhiteSpace == { " ", "\r", "\t" }

RECURSIVE TrimStart(_)
TrimStart(line) ==
    IF line # << >> /\ Head(line) \in WhiteSpace THEN TrimStart(Tail(line)) ELSE line

RECURSIVE TrimEnd(_)
TrimEnd(line) ==
    IF line # << >> /\ line[Len(line)] \in WhiteSpace
      THEN TrimEnd(SubSeq(line, 1, Len(line) - 1))
      ELSE line

\* String.prototype.trim
Trim(line) == TrimEnd(TrimStart(line))

\* responseText.split('\n'): the pieces between the line feeds
RECURSIVE SplitLines(_, _)
SplitLines(text, current) ==
    IF text = << >> THEN << current >>
    ELSE IF Head(text) = "\n"
           THEN << current >> \o SplitLines(Tail(text), << >>)
           ELSE SplitLines(Tail(text), Append(current, Head(text)))

\* .map((line) => line.trim()).filter((line) => line)
TrimmedLines(text) ==
    LET pieces == SplitLines(text, << >>)
    IN  SelectSeq([i \in DOMAIN pieces |-> Trim(pieces[i])], LAMBDA l : l # << >>)

\* line.startsWith('стиль:') without toLowerCase: a capitalised label is missed
StartsWithLabelCaseSensitive(line, w) ==
    Len(line) >= 2 /\ line[1] = w /\ line[2] = ":"

\* line.toLowerCase().startsWith('стиль:')
StartsWithLabel(line, w) ==
    Len(line) >= 2 /\ ToLowerCase(line[1]) = w /\ line[2] = ":"

\* line.replace(/^стиль:\s*/i, '').trim()
RemoveLabel(line, w) ==
    IF Len(line) >= 2 /\ ToLowerCase(line[1]) = w /\ line[2] = ":"
      THEN Trim(TrimStart(SubSeq(line, 3, Len(line))))
      ELSE Trim(line)

\* 'Не указан', 'Не указаны', 'Не указана', 'Не указана', 'Не указаны'
NotSpecified == [style |-> << "Ne ukazan" >>, topics |-> << "Ne ukazany" >>,
                 activity |-> << "Ne ukazana" >>, tone |-> << "Ne ukazana" >>,
                 features |-> << "Ne ukazany" >>]

\* One pass of the for loop's if / else-if chain: the first label of the
\* chain the line starts with takes the line.
ParseLine(fields, line) ==
    IF \E i \in DOMAIN LabelWords : StartsWithLabel(line, LabelWords[i])
      THEN LET i == CHOOSE k \in DOMAIN LabelWords :
                       /\ StartsWithLabel(line, LabelWords[k])
                       /\ \A j \in 1..(k - 1) : ~StartsWithLabel(line, LabelWords[j])
           IN  [fields EXCEPT ![LabelWords[i]] = RemoveLabel(line, LabelWords[i])]
      ELSE fields

\* for (const line of lines) { ... }
RECURSIVE ParseLines(_, _)
ParseLines(fields, lines) ==
    IF lines = << >> THEN fields
    ELSE ParseLines(ParseLine(fields, Head(lines)), Tail(lines))

\* `${averageLength} символов`
AverageLengthText(averageLength) == << ToString(averageLength), " ", "simvolov" >>

\* 'все время'
AllTime == << "vse vremya" >>

parseAnalysisResponse(responseText, messageCount, averageLength) ==
    LET fields == ParseLines(NotSpecified, TrimmedLines(responseText))
    IN  [style |-> fields.style, topics |-> fields.topics,
         averageLength |-> AverageLengthText(averageLength),
         activity |-> fields.activity, tone |-> fields.tone,
         features |-> fields.features,
         messageCount |-> messageCount, period |-> AllTime]

\* Lines an LLM answer may be made of.
ParseLineChoices ==
    { << "Style", ":", " ", "a" >>,
      << " ", "STYLE", ":", "b", " " >>,
      << "topics", ":", " ", " ", "c", " ", "d", "\r" >>,
      << >>,
      << " ", "\r" >>,
      << "x", " ", "style", ":", "a" >>,
      << "tone", ":" >>,
      << "Features", ":", " ", "style", ":", "e" >>,
      << "activity", " ", ":", "f" >>,
      << "Activity", ":", "\t", "f" >> }

MaxLines == 3

ParseInputs == UNION { [1..n -> ParseLineChoices] : n \in 0..MaxLines }

\* lines.join('\n'): the text whose lines these are
RECURSIVE JoinLines(_)
JoinLines(lines) ==
    IF lines = << >> THEN << >>
    ELSE IF Len(lines) = 1 THEN lines[1]
    ELSE lines[1] \o << "\n" >> \o JoinLines(Tail(lines))

(***************************************************************************)
(* The prompt builders: createAnalysisPrompt (GeminiService,               *)
(* DeepSeekService, QwenService, dashboard) and                            *)
(* DigestService.createDigestPrompt.  A message text is given by a tag     *)
(* that tells it from the others and by its length in characters.          *)
(***************************************************************************)
AnalysisMaxLength == 6000

DigestMaxLength == 8000

\* messages.join('\n').length
RECURSIVE SumLengths(_)
SumLengths(texts) ==
    IF texts = << >> THEN 0 ELSE Head(texts).length + SumLengths(Tail(texts))

JoinedLength(texts) ==
    IF texts = << >> THEN 0 ELSE SumLengths(texts) + (Len(texts) - 1)

\* Math.floor(n * 0.6)
FloorSixTenths(n) == (n * 6) \div 10

\* Array.prototype.slice(0, k): the first k elements.
SliceFirst(seq, k) ==
    IF k >= Len(seq) THEN seq ELSE SubSeq(seq, 1, k)
\* Array.prototype.slice(-k): the last k elements; slice(-0) is slice(0),
\* the whole array.
SliceLast(seq, k) ==
    IF k = 0 \/ k >= Len(seq) THEN seq
    ELSE SubSeq(seq, Len(seq) - k + 1, Len(seq))

\* username ? `@${username}` : firstName || 'Пользователь'
DisplayName(username, firstName) ==
    IF username \notin {NULL, ""} THEN "@" \o username
    ELSE IF firstName \notin {NULL, ""} THEN firstName
    ELSE "Polzovatel"

\* The messages whose joined text goes into the prompt.
PromptMessages(msgs, maxLength) ==
    IF JoinedLength(msgs) > maxLength
      THEN SliceLast(msgs, FloorSixTenths(Len(msgs)))
      ELSE msgs

createAnalysisPrompt(msgs, username, firstName) ==
    LET kept == PromptMessages(msgs, AnalysisMaxLength)
    IN  [displayName |-> DisplayName(username, firstName),
         messages |-> kept, length |-> JoinedLength(kept)]

createDigestPrompt(msgs, periodLabel) ==
    LET kept == PromptMessages(msgs, DigestMaxLength)
    IN  [periodLabel |-> periodLabel,
         messages |-> kept, length |-> JoinedLength(kept)]

\* Message texts the builders are exercised on.
PromptTexts == { [tag |-> "a", length |-> 1500],
                 [tag |-> "b", length |-> 2500],
                 [tag |-> "c", length |-> 4000],
                 [tag |-> "d", length |-> 8001],
                 [tag |-> "e", length |-> 4499] }

MaxPromptMessages == 4

PromptInputs ==
    { [builder |-> b, messages |-> m] :
        b \in {"analysis", "digest"},
        m \in UNION { [1..n -> PromptTexts] : n \in 1..MaxPromptMessages } }

(***************************************************************************)
(* LLM providers.  An error is given by where it comes from, its `status`  *)
(* (0 when the error object has none) and the marker texts its message     *)
(* contains, among those some `includes` test of the program looks for:    *)
(*   "429", "404", "INSUFFICIENT_BALANCE", and, in Latin letters,          *)
(*   "limit" = 'лимит', "too large" = 'слишком большой',                   *)
(*   "API key" = 'API ключ'.                                               *)
(***************************************************************************)
Providers == { "DeepSeek", "Qwen", "Gemini" }

Err(name, status, mentions) == [name |-> name, status |-> status, mentions |-> mentions]

\* error.message.includes(marker)
MessageIncludes(e, marker) == marker \in e.mentions

\* What this.model.generateContent / response.text() of the Gemini SDK may
\* throw: a fetch error carries the HTTP status in `status` and in its
\* message ("[404 Not Found]"); other errors have no status.
GeminiErrors ==
    { Err("GoogleGenerativeAIFetchError", 429, {"429"}),
      Err("GoogleGenerativeAIFetchError", 400, {"400"}),
      Err("GoogleGenerativeAIFetchError", 403, {"403"}),
      Err("GoogleGenerativeAIFetchError", 404, {"404"}),
      Err("GoogleGenerativeAIFetchError", 500, {"500"}),
      Err("GoogleGenerativeAIError", 0, {"429"}),
      Err("GoogleGenerativeAIError", 0, {"404"}),
      Err("GoogleGenerativeAIResponseError", 0, {}) }

\* Texts a provider may answer with.
AnswerText == JoinLines(<< << "Style", ":", " ", "a" >>, << "Tone", ":", " ", "b" >> >>)

EmptyText == << >>

\* 'Превышен лимит запросов к API. Подождите минуту и попробуйте снова.'
RateLimitError == Err("Error: rate limit", 0, {"limit"})

\* 'Запрос слишком большой. Попробуйте проанализировать пользователя с
\* меньшим количеством сообщений.'
TooLargeError == Err("Error: request too large", 0, {"too large"})

\* 'Проблема с доступом к API. Проверьте API ключ.'
AccessError == Err("Error: access", 0, {"API key"})

\* `Все модели Gemini недоступны. Последняя ошибка: ${fallbackError.message}`
AllModelsError(fallbackError) == Err("Error: all Gemini models unavailable", 0, fallbackError.mentions)

\* 'GEMINI_API_KEY не установлен в переменных окружения',
\* 'DEEPSEEK_API_KEY не установлен', 'DASHSCOPE_API_KEY не установлен, ...'
KeyNotSetError(provider) == Err("Error: key not set: " \o provider, 0, {})

\* 'DEEPSEEK_INSUFFICIENT_BALANCE'
InsufficientBalanceError == Err("Error: DEEPSEEK_INSUFFICIENT_BALANCE", 0, {"INSUFFICIENT_BALANCE"})

\* `DeepSeek API ошибка: ${response.status} - ${errorText}`
DeepSeekApiError(status, errorText) ==
    Err("Error: DeepSeek API", 0, {ToString(status), errorText})

\* 'Пустой ответ от DeepSeek API', 'Пустой ответ от Qwen API',
\* 'Пустой текст ответа от Qwen API', 'Пустой ответ от Qwen'
EmptyAnswerError(provider) == Err("Error: empty answer: " \o provider, 0, {})

\* What fetch or the OpenAI client throws by itself.
TransportError == Err("TypeError: fetch failed", 0, {})

OpenAIError == Err("APIError", 500, {"500"})

\* 'DeepSeek API: недостаточно средств на счету. Альтернативные API
\* (Qwen / Gemini) недоступны.'
NoAlternativeError == Err("Error: insufficient balance, no alternative", 0, {})

\* 'Ни один LLM-провайдер не смог выполнить анализ. Проверьте настройки
\* ключей API.'
NoProviderError == Err("Error: no provider could analyze", 0, {})

\* retryWithBackoff: error.status !== 429 && !error.message?.includes('429')
\* is the test for "do not retry".
RetriesOnAnyError(e) == TRUE
IsRateLimit(e) == e.status = 429 \/ MessageIncludes(e, "429")

\* analyzeUser: error.message && (error.message.includes('404') ||
\* error.status === 404); the message of these errors is never empty.
NeverNotFound(e) == FALSE
IsModelNotFound(e) == MessageIncludes(e, "404") \/ e.status = 404

\* GeminiService.initialize: the first model of the list is created.
InitialGeminiModel == "gemini-3-flash-preview"

fallbackModels == << "gemini-2.5-flash", "gemini-2.5-pro", "gemini-1.5-flash",
                    "gemini-1.5-pro", "gemini-pro" >>

\* The dashboard's analyzeUserWithGemini tries these one after another.
webModels == << "gemini-3-flash-preview", "gemini-2.5-flash", "gemini-2.5-pro",
               "gemini-1.5-flash", "gemini-pro" >>

\* retryWithBackoff(generateContent, 3, 2000) / (generateContent, 2, 1000)
PrimaryRetries == 3

FallbackRetries == 2

\* Math.min(options?.limit || 30, 30)
MessageLimit == 30

\* A record for a user without messages whose style is left empty.
InsufficientDataBlank ==
    [style |-> << >>,
     topics |-> << "Net soobshcheniy dlya analiza" >>,
     averageLength |-> << "0" >>,
     activity |-> << "Nedostatochno dannyh" >>,
     tone |-> << "Nedostatochno dannyh" >>,
     features |-> << "Net dannyh" >>,
     messageCount |-> 0, period |-> << "vse vremya" >>]
\* The record analyzeUser returns for a user without messages:
\* 'Недостаточно данных', 'Нет сообщений для анализа', '0', 'Нет данных'
InsufficientData ==
    [style |-> << "Nedostatochno dannyh" >>,
     topics |-> << "Net soobshcheniy dlya analiza" >>,
     averageLength |-> << "0" >>,
     activity |-> << "Nedostatochno dannyh" >>,
     tone |-> << "Nedostatochno dannyh" >>,
     features |-> << "Net dannyh" >>,
     messageCount |-> 0, period |-> AllTime]

\* Math.round(totalLength / messages.length)
AverageLength(texts) == (2 * SumLengths(texts) + Len(texts)) \div (2 * Len(texts))

\* SELECT ... ORDER BY created_at DESC LIMIT n: every order of the rows the
\* database may answer with (rows of equal created_at come in any order).
OrderedNewestFirst(rows, limit) ==
    LET n == Cardinality(rows)
        all == { s \in [1..n -> rows] :
                   /\ \A i, j \in 1..n : i # j => s[i] # s[j]
                   /\ \A i, j \in 1..n : i < j => DateLE(s[j].created_at, s[i].created_at) }
    IN  { SubSeq(s, 1, IF n < limit THEN n ELSE limit) : s \in all }

\* Message.findByUserId(userId, { limit })
findByUserId(userId, limit) ==
    OrderedNewestFirst({ m \in messages : m.user_id = userId }, limit)

\* A lookup that answers with a row whatever the id.
findAnyUser(tid) == users
\* User.findByTelegramId(telegramId): result.rows[0] || null
findByTelegramId(tid) == { r \in users : r.telegram_id = tid }

\* User.findByUsername(username) and the dashboard's findUserByUsername
findByUsername(name) == { r \in users : r.username = name }


\* generateWithLLM: const providers = ['Qwen', 'Gemini', 'DeepSeek']
digestProviders == << "Qwen", "Gemini", "DeepSeek" >>
\* The three providers with Gemini first.
geminiFirstProviders == << "Gemini", "Qwen", "DeepSeek" >>
\* handleAnalyzeCommand: const providers: Provider[] = ['DeepSeek', 'Qwen', 'Gemini']
analyzeProviders == << "DeepSeek", "Qwen", "Gemini" >>

\* A /analyze command: the sender of the message it replies to (0: not a
\* reply), the @username in its text ("": none), its own sender (0: none).
NoCommand == [reply |-> 0, mention |-> "", from |-> 0]

\* The state of handleAnalyzeCommand.
IdleAnalyze ==
    [pc |-> "idle", cmd |-> NoCommand, target |-> 0, userRow |-> << >>,
     idx |-> 0, analysis |-> << >>, usedService |-> "",
     lastError |-> << >>, deepseekInsufficient |-> FALSE,
     attempts |-> << >>, failures |-> << >>,
     thrown |-> << >>, shown |-> "none", served |-> 0]

\* The state of DigestService.generateWithLLM.
IdleDigest ==
    [pc |-> "idle", idx |-> 0, contacted |-> << >>, answers |-> << >>,
     lastError |-> << >>, outcome |-> "none", text |-> << >>, error |-> << >>,
     served |-> 0]

\* 'Все LLM-провайдеры недоступны для дайджеста'
AllUnavailableError == Err("Error: all providers unavailable for the digest", 0, {})

\* The state of one retryWithBackoff(fn, maxRetries) invocation: the round
\* (0 for the model in use, i for fallbackModels[i]), the number of calls of
\* fn so far, what each of them gave, and how the invocation ended once
\* `done`.
NoRetry == [round |-> 0, model |-> "none", max |-> 0, calls |-> 0,
            history |-> << >>,
            done |-> FALSE, outcome |-> "none", text |-> << >>, error |-> << >>]

NewRetry(round, model, max) ==
    [NoRetry EXCEPT !.round = round, !.model = model, !.max = max]

Resolved(text) == [ok |-> TRUE, text |-> text, error |-> << >>]

Threw(e) == [ok |-> FALSE, text |-> << >>, error |-> << e >>]

\* One pass of the for loop of retryWithBackoff in which fn() resolved.
RetryAfterSuccess(rb, text) ==
    [rb EXCEPT !.calls = @ + 1, !.history = Append(@, Resolved(text)),
               !.done = TRUE, !.outcome = "returned", !.text = text]

\* One pass of the for loop of retryWithBackoff in which fn() threw e: an
\* error that is not a rate limit is rethrown at once; after the delay the
\* loop goes on, and past its last pass lastError is thrown.
RetryAfterFailure(rb, e) ==
    IF ~IsRateLimit(e)
      THEN [rb EXCEPT !.calls = @ + 1, !.history = Append(@, Threw(e)),
                      !.done = TRUE, !.outcome = "raised", !.error = << e >>]
      ELSE IF rb.calls + 1 < rb.max
             THEN [rb EXCEPT !.calls = @ + 1, !.history = Append(@, Threw(e))]
             ELSE [rb EXCEPT !.calls = @ + 1, !.history = Append(@, Threw(e)),
                             !.done = TRUE, !.outcome = "raised", !.error = << e >>]

\* The state of one analyzeUser call (a provider adapter of the bot, or one
\* of the dashboard's analyzeUserWith... functions).
IdleAdapter ==
    [pc |-> "idle", caller |-> "none", provider |-> "none", variant |-> "bot",
     target |-> 0, name |-> "", userRow |-> << >>, rows |-> << >>,
     prompt |-> << >>, averageLength |-> 0, requests |-> 0, response |-> "none",
     rb |-> NoRetry, tried |-> << >>, primaryError |-> << >>, webIndex |-> 0,
     outcome |-> "none", value |-> << >>, error |-> << >>]

\* analyzeUser returned v (<< >> stands for null) / raised e
Returned(a, v) == [a EXCEPT !.pc = "done", !.outcome = "returned", !.value = v]

Raised(a, e) == [a EXCEPT !.pc = "done", !.outcome = "raised", !.error = << e >>]

\* The statements of analyzeUser before its first await: the credential
\* check (DeepSeek: this.API_KEY; Qwen: isAvailable() and getClient();
\* Gemini: initialize() unless a model exists; dashboard: the apiKey test).
CallRaisesWithoutKey(provider, variant) ==
    /\ ~keys[provider]
    /\ ~(variant = "bot" /\ provider = "Gemini" /\ geminiModel # "none")

Begun(caller, provider, variant, target, name) ==
    LET a == [IdleAdapter EXCEPT !.caller = caller, !.provider = provider,
                                 !.variant = variant, !.target = target,
                                 !.name = name]
    IN  IF CallRaisesWithoutKey(provider, variant)
          THEN Raised(a, KeyNotSetError(provider))
          ELSE [a EXCEPT !.pc = "find"]

\* GeminiService.model after those statements
ModelAfterBegin(provider, variant) ==
    IF variant = "bot" /\ provider = "Gemini" /\ geminiModel = "none" /\ keys["Gemini"]
      THEN InitialGeminiModel
      ELSE geminiModel

\* const user = await User.findByTelegramId(telegramUserId) (the dashboard:
\* findUserByUsername(username)); if (!user) return null
AdapterFindUser ==
    /\ ad.pc = "find"
    /\ LET found == IF ad.variant = "bot" THEN findByTelegramId(ad.target)
                                           ELSE findByUsername(ad.name)
       IN  IF found = {}
             THEN ad' = Returned(ad, << >>)
             ELSE \E u \in found : ad' = [ad EXCEPT !.pc = "messages", !.userRow = << u >>]
    /\ UNCHANGED << ingestVars, now, envVars, pureVars, statsVars, textVars,
                    keys, geminiModel, an, dg, uiVars >>

\* messages.map((msg) => msg.text)
TextsOf(rows) == [i \in DOMAIN rows |-> rows[i].text]

\* const messages = await this.getUserMessages(telegramUserId, limit); the
\* sentinel for an empty list; otherwise the average length and the prompt.
AdapterGetMessages ==
    /\ ad.pc = "messages"
    /\ \E rows \in findByUserId(ad.userRow[1].id, MessageLimit) :
          IF rows = << >>
            THEN ad' = Returned([ad EXCEPT !.rows = rows], << InsufficientData >>)
            ELSE ad' = [ad EXCEPT
                          !.pc = "request",
                          !.rows = rows,
                          !.averageLength = AverageLength(TextsOf(rows)),
                          !.prompt = << createAnalysisPrompt(TextsOf(rows),
                                            ad.userRow[1].username,
                                            ad.userRow[1].first_name) >>,
                          !.rb = IF ad.variant = "bot" /\ ad.provider = "Gemini"
                                   THEN NewRetry(0, geminiModel, PrimaryRetries)
                                   ELSE NoRetry,
                          !.webIndex = IF ad.variant = "web" /\ ad.provider = "Gemini"
                                         THEN 1 ELSE 0]
    /\ UNCHANGED << ingestVars, now, envVars, pureVars, statsVars, textVars,
                    keys, geminiModel, an, dg, uiVars >>

\* The record built from the answer text.
Analysis(a, text) ==
    << parseAnalysisResponse(text, Len(a.rows), a.averageLength) >>


\* What the DeepSeek endpoint may do with the one fetch: the transport
\* fails, the answer is 402, another non-success status, a completion with
\* text, or a completion without text.
DeepSeekOutcomes == { "transport", "402", "429", "500", "text", "empty" }

\* await response.text() of a response that is not ok
ErrorBody == "error body"

\* A response with status 402 is reported like any other failure.
AfterDeepSeekNoBalanceCode(a, o) ==
    CASE o = "transport" -> Raised(a, TransportError)
      [] o = "402"       -> Raised(a, DeepSeekApiError(402, ErrorBody))
      [] o = "429"       -> Raised(a, DeepSeekApiError(429, ErrorBody))
      [] o = "500"       -> Raised(a, DeepSeekApiError(500, ErrorBody))
      [] o = "empty"     -> Raised(a, EmptyAnswerError("DeepSeek"))
      [] o = "text"      -> Returned(a, Analysis(a, AnswerText))

\* DeepSeekService.analyzeUser and the dashboard's analyzeUserWithDeepseek,
\* from the fetch to the end.
AfterDeepSeek(a, o) ==
    CASE o = "transport" -> Raised(a, TransportError)
      [] o = "402"       -> Raised(a, InsufficientBalanceError)
      [] o = "429"       -> Raised(a, DeepSeekApiError(429, ErrorBody))
      [] o = "500"       -> Raised(a, DeepSeekApiError(500, ErrorBody))
      [] o = "empty"     -> Raised(a, EmptyAnswerError("DeepSeek"))
      [] o = "text"      -> Returned(a, Analysis(a, AnswerText))

\* What client.chat.completions.create may do: throw, answer without a
\* choice, or answer with a content that is a string (with text or empty),
\* an array of parts, or null.
QwenOutcomes == { "error", "nochoice", "text", "empty", "parts", "null" }

\* QwenService.analyzeUser from the request to the end: a content that is
\* neither a string nor an array goes through JSON.stringify.
AfterQwenBot(a, o) ==
    CASE o = "error"    -> Raised(a, OpenAIError)
      [] o = "nochoice" -> Raised(a, EmptyAnswerError("Qwen"))
      [] o = "empty"    -> Raised(a, EmptyAnswerError("Qwen"))
      [] o = "text"     -> Returned(a, Analysis(a, AnswerText))
      [] o = "parts"    -> Returned(a, Analysis(a, AnswerText))
      [] o = "null"     -> Returned(a, Analysis(a, << "null" >>))

\* analyzeUserWithQwen: content || '' for anything but an array
AfterQwenWeb(a, o) ==
    CASE o = "error"    -> Raised(a, OpenAIError)
      [] o = "nochoice" -> Raised(a, EmptyAnswerError("Qwen"))
      [] o = "empty"    -> Raised(a, EmptyAnswerError("Qwen"))
      [] o = "null"     -> Raised(a, EmptyAnswerError("Qwen"))
      [] o = "text"     -> Returned(a, Analysis(a, AnswerText))
      [] o = "parts"    -> Returned(a, Analysis(a, AnswerText))

\* The single request of the DeepSeek and Qwen adapters settles.
AdapterRequest ==
    /\ ad.pc = "request"
    /\ ad.provider \in { "DeepSeek", "Qwen" }
    /\ LET sent == [ad EXCEPT !.requests = @ + 1]
       IN  IF ad.provider = "DeepSeek"
             THEN \E o \in DeepSeekOutcomes :
                     ad' = AfterDeepSeek([sent EXCEPT !.response = o], o)
             ELSE \E o \in QwenOutcomes :
                     ad' = IF ad.variant = "bot"
                             THEN AfterQwenBot([sent EXCEPT !.response = o], o)
                             ELSE AfterQwenWeb([sent EXCEPT !.response = o], o)
    /\ UNCHANGED << ingestVars, now, envVars, pureVars, statsVars, textVars,
                    keys, geminiModel, an, dg, uiVars >>

\* Texts response.text() of the Gemini SDK may give.
GeminiTexts == { AnswerText, EmptyText }

\* GeminiService.analyzeUser: one call of generateContent() inside
\* retryWithBackoff settles (it resolved with a text or threw), and the for
\* loop of retryWithBackoff returns, throws or goes on to the next attempt.
GeminiCall ==
    /\ ad.pc = "request"
    /\ ad.variant = "bot" /\ ad.provider = "Gemini"
    /\ ~ad.rb.done
    /\ \/ \E t \in GeminiTexts :
             ad' = [ad EXCEPT !.requests = @ + 1, !.rb = RetryAfterSuccess(ad.rb, t)]
       \/ \E e \in GeminiErrors :
             ad' = [ad EXCEPT !.requests = @ + 1, !.rb = RetryAfterFailure(ad.rb, e)]
    /\ UNCHANGED << ingestVars, now, envVars, pureVars, statsVars, textVars,
                    keys, geminiModel, an, dg, uiVars >>

\* GeminiService.analyzeUser once retryWithBackoff has returned or thrown:
\* the text is parsed; an error of the model in use is mapped (429, 400,
\* 403), starts the model fallback (404) or is thrown as it is; an error of
\* a fallback model moves on to the next one, or ends the call after the
\* last one.
GeminiAfterRetry ==
    /\ ad.pc = "request"
    /\ ad.variant = "bot" /\ ad.provider = "Gemini"
    /\ ad.rb.done
    /\ LET rb    == ad.rb
           noted == [ad EXCEPT !.tried = Append(@, [model |-> rb.model,
                                                     ok |-> rb.outcome = "returned"]),
                               !.primaryError = IF rb.round = 0 THEN rb.error ELSE @]
       IN  IF rb.outcome = "returned"
             THEN /\ ad' = Returned(noted, Analysis(ad, rb.text))
                  /\ UNCHANGED geminiModel
             ELSE LET e == rb.error[1]
                  IN  IF rb.round = 0
                        THEN IF e.status = 429
                               THEN ad' = Raised(noted, RateLimitError) /\ UNCHANGED geminiModel
                             ELSE IF e.status = 400
                               THEN ad' = Raised(noted, TooLargeError) /\ UNCHANGED geminiModel
                             ELSE IF e.status = 403
                               THEN ad' = Raised(noted, AccessError) /\ UNCHANGED geminiModel
                             ELSE IF IsModelNotFound(e)
                               THEN /\ geminiModel' = fallbackModels[1]
                                    /\ ad' = [noted EXCEPT !.rb = NewRetry(1, fallbackModels[1],
                                                                           FallbackRetries)]
                             ELSE ad' = Raised(noted, e) /\ UNCHANGED geminiModel
                        ELSE IF rb.round = Len(fallbackModels)
                               THEN ad' = Raised(noted, AllModelsError(e)) /\ UNCHANGED geminiModel
                               ELSE /\ geminiModel' = fallbackModels[rb.round + 1]
                                    /\ ad' = [noted EXCEPT
                                                !.rb = NewRetry(rb.round + 1,
                                                                fallbackModels[rb.round + 1],
                                                                FallbackRetries)]
    /\ UNCHANGED << ingestVars, now, envVars, pureVars, statsVars, textVars,
                    keys, an, dg, uiVars >>

\* analyzeUserWithGemini: the request to models[webIndex] settles; any
\* error moves on to the next model, the error of the last one is thrown.
WebGeminiCall ==
    /\ ad.pc = "request"
    /\ ad.variant = "web" /\ ad.provider = "Gemini"
    /\ LET sent == [ad EXCEPT !.requests = @ + 1]
       IN  \/ \E t \in GeminiTexts :
                ad' = Returned([sent EXCEPT !.tried = Append(@, [model |-> webModels[ad.webIndex],
                                                                 ok |-> TRUE])],
                               Analysis(ad, t))
           \/ \E e \in GeminiErrors :
                LET noted == [sent EXCEPT !.tried = Append(@, [model |-> webModels[ad.webIndex],
                                                                ok |-> FALSE])]
                IN  ad' = IF ad.webIndex = Len(webModels)
                            THEN Raised(noted, e)
                            ELSE [noted EXCEPT !.webIndex = @ + 1]
    /\ UNCHANGED << ingestVars, now, envVars, pureVars, statsVars, textVars,
                    keys, geminiModel, an, dg, uiVars >>


\* No /digest command is being handled.
IdleDigestHandler ==
    [pc |-> "idle", chat |-> NoUpdate.chat, rows |-> << >>, prompt |-> << >>,
     digest |-> "none", result |-> << >>, llmCalls |-> 0, calls |-> << >>,
     escaped |-> FALSE, served |-> 0]

\* No /stats handler runs and no menu message has been sent.
NoMessage == [text |-> [kind |-> "none", body |-> << >>], keyboard |-> "none",
              mode |-> "none"]

IdleMenu ==
    [pc |-> "idle", handler |-> "none", chatId |-> 0, from |-> 0, period |-> "",
     call |-> 0, result |-> << >>, message |-> NoMessage, calls |-> << >>,
     failed |-> FALSE, escaped |-> FALSE, presses |-> 0]

\* No request of the dashboard is being handled.
IdleRoute ==
    [pc |-> "idle", body |-> [kind |-> "none", chars |-> << >>, provider |-> UNDEFINED],
     clean |-> "", order |-> << >>, idx |-> 0, attempts |-> << >>, outcomes |-> << >>,
     analysis |-> << >>, lastError |-> << >>, status |-> 0, answer |-> << >>,
     served |-> 0]

\* The handlers and the statistics calls are idle, the cache is empty.
InitIdle ==
    /\ dh = IdleDigestHandler
    /\ web = IdleRoute
    /\ recentAnalyses = << >>
    /\ overviewRecentAnalyses = << >>
    /\ ov = << >>
    /\ posted = << >>
    /\ menu = IdleMenu
    /\ now = StartTime
    /\ pc = [h \in Handlers |-> "idle"]
    /\ upd = [h \in Handlers |-> NoUpdate]
    /\ user = [h \in Handlers |-> NoUser]
    /\ ret = [h \in Handlers |-> << >>]
    /\ outcome = [h \in Handlers |-> "none"]
    /\ cache = {}
    /\ st = [p \in StatsCalls |-> IdleCall]
    /\ asked = 0
    /\ ticks = 0

InitCommon ==
    /\ InitIdle
    /\ users = {}
    /\ messages = {}
    /\ usersSeq = 0
    /\ messagesSeq = 0
    /\ delivered = 0
    /\ lastCall = [t \in TelegramIds |-> NoFrom]
    /\ returnedIds = [t \in TelegramIds |-> {}]

\* No call of the pure helpers is being exercised.
InitPureIdle ==
    /\ keyArgs = << >>
    /\ keyOut = << >>
    /\ rangeArgs = << >>
    /\ rangeOut = << >>

\* No call of the prompt builders or of the response parser is being exercised.
InitTextIdle ==
    /\ promptArgs = << >>
    /\ promptOut = << >>
    /\ parseArgs = << >>
    /\ parseOut = << >>

\* No LLM provider is in use.
InitLlmIdle ==
    /\ keys = [p \in Providers |-> FALSE]
    /\ geminiModel = "none"
    /\ an = IdleAnalyze
    /\ ad = IdleAdapter
    /\ dg = IdleDigest

Init == InitCommon /\ InitPureIdle /\ InitTextIdle /\ InitLlmIdle /\ serial = FALSE /\ inbox = Updates

InitSeq == InitCommon /\ InitPureIdle /\ InitTextIdle /\ InitLlmIdle /\ serial = TRUE /\ inbox = Updates

\* The updates delivered while statistics are being asked: a text of each
\* of two senders in the group, and one in the supergroup.
StatsUpdates ==
    { u \in Updates : /\ u.text = <<"h", "i">>
                      /\ u.from.present
                      /\ u.from.username # "ann"
                      /\ \/ u.chat.type = "group" /\ u.message_id = 1 /\ u.from.id = 5
                         \/ u.chat.type = "group" /\ u.message_id = 2 /\ u.from.id = 6
                         \/ u.chat.type = "supergroup" /\ u.message_id = 1 /\ u.from.id = 5 }

\* The first sender of the group, as Telegram reports them.
FirstSender == [id |-> 5, username |-> UNDEFINED, first_name |-> "Ann",
                last_name |-> "", present |-> TRUE]

\* The store after the first text of the group (message 1 of FirstSender in
\* chat -100) has been handled; more updates follow while statistics are asked.
InitStats ==
    /\ InitIdle /\ InitPureIdle /\ InitTextIdle /\ InitLlmIdle
    /\ serial = TRUE /\ inbox = StatsUpdates
    /\ users = { NewUserRow(1, FindOrCreateData(FirstSender)) }
    /\ messages = { NewMessageRow(1, [user_id |-> 1, telegram_message_id |-> 1,
                                      chat_id |-> -100, text |-> <<"h", "i">>],
                                  StartTime) }
    /\ usersSeq = 1
    /\ messagesSeq = 1
    /\ delivered = 1
    /\ lastCall = [t \in TelegramIds |-> IF t = 5 THEN FirstSender ELSE NoFrom]
    /\ returnedIds = [t \in TelegramIds |-> IF t = 5 THEN {1} ELSE {}]

\* getCacheKey is about to be called on two argument lists.
InitKey ==
    /\ InitCommon /\ InitTextIdle /\ InitLlmIdle /\ serial = FALSE /\ inbox = Updates
    /\ keyArgs \in KeyInputs \X KeyInputs
    /\ keyOut = << >>
    /\ rangeArgs = << >>
    /\ rangeOut = << >>

\* getDateRange is about to be called at some date, for some period.
InitRange ==
    /\ InitCommon /\ InitTextIdle /\ InitLlmIdle /\ serial = FALSE /\ inbox = Updates
    /\ keyArgs = << >>
    /\ keyOut = << >>
    /\ rangeArgs \in { << [period |-> p, at |-> n] >> :
                          p \in RangePeriods,
                          n \in { x \in RangeNows : x.date <= DaysInMonth(x.year, x.month) } }
    /\ rangeOut = << >>

(***************************************************************************)
(* bot.on('text', ...) : one action per await point of the handler.        *)
(***************************************************************************)
\* The handler is invoked with an update and runs up to its first await:
\* the command check, the chat-type check, the message/from check, and the
\* SELECT of User.findOrCreate is issued.
Receive(h) ==
    /\ pc[h] = "idle"
    /\ delivered < MaxUpdates
    /\ serial => \A g \in Handlers : pc[g] = "idle"
    /\ \E u \in inbox :
        /\ upd' = [upd EXCEPT ![h] = u]
        /\ IF IsCommand(u.text)
             THEN /\ pc' = [pc EXCEPT ![h] = "done"]
                  /\ outcome' = [outcome EXCEPT ![h] = "skipped"]
                  /\ UNCHANGED lastCall
             ELSE IF IsGroupChat(u.chat) /\ u.from.present
                    THEN /\ pc' = [pc EXCEPT ![h] = "select"]
                         /\ outcome' = [outcome EXCEPT ![h] = "none"]
                         /\ lastCall' = [lastCall EXCEPT ![u.from.id] = u.from]
                    ELSE /\ pc' = [pc EXCEPT ![h] = "done"]
                         /\ outcome' = [outcome EXCEPT ![h] = "skipped"]
                         /\ UNCHANGED lastCall
    /\ delivered' = delivered + 1
    /\ user' = [user EXCEPT ![h] = NoUser]
    /\ ret' = [ret EXCEPT ![h] = << >>]
    /\ UNCHANGED << users, messages, usersSeq, messagesSeq, now, envVars, returnedIds, pureVars, statsVars, textVars, llmVars, uiVars >>

\* User.findOrCreate: const findResult = await pgPool.query(findQuery)
SelectUser(h) ==
    /\ pc[h] = "select"
    /\ pc' = [pc EXCEPT ![h] =
                IF SelectUserByTelegramId(upd[h].from.id) # {} THEN "update" ELSE "insert"]
    /\ UNCHANGED << users, messages, usersSeq, messagesSeq, now, upd, user, ret,
                    outcome, delivered, envVars, lastCall, returnedIds, pureVars, statsVars, textVars, llmVars, uiVars >>

\* User.findOrCreate, row found: UPDATE users ... RETURNING *; return rows[0]
UpdateUser(h) ==
    /\ pc[h] = "update"
    /\ LET data == FindOrCreateData(upd[h].from)
           rows == UpdateUserRows(users, data)
           row  == CHOOSE r \in rows : r.telegram_id = data.telegram_id
       IN  /\ users' = rows
           /\ user' = [user EXCEPT ![h] = row]
           /\ returnedIds' = [returnedIds EXCEPT ![data.telegram_id] = @ \cup {row.id}]
    /\ pc' = [pc EXCEPT ![h] = "create"]
    /\ UNCHANGED << messages, usersSeq, messagesSeq, now, upd, ret,
                    outcome, delivered, envVars, lastCall, pureVars, statsVars, textVars, llmVars, uiVars >>

\* User.findOrCreate, no row found: INSERT INTO users ... RETURNING *.
\* telegram_id is UNIQUE: when another handler inserted the row since the
\* SELECT, the statement raises, findOrCreate rejects and the handler's
\* catch block logs the error and ends the handler.
InsertUser(h) ==
    /\ pc[h] = "insert"
    /\ LET data == FindOrCreateData(upd[h].from)
           row  == NewUserRow(usersSeq + 1, data)
       IN  IF SelectUserByTelegramId(data.telegram_id) = {}
             THEN /\ users' = users \cup {row}
                  /\ user' = [user EXCEPT ![h] = row]
                  /\ returnedIds' = [returnedIds EXCEPT ![data.telegram_id] = @ \cup {row.id}]
                  /\ pc' = [pc EXCEPT ![h] = "create"]
                  /\ UNCHANGED outcome
             ELSE /\ pc' = [pc EXCEPT ![h] = "done"]
                  /\ outcome' = [outcome EXCEPT ![h] = "error"]
                  /\ UNCHANGED << users, user, returnedIds >>
    /\ usersSeq' = usersSeq + 1
    /\ UNCHANGED << messages, messagesSeq, now, upd, ret, delivered,
                    envVars, lastCall, pureVars, statsVars, textVars, llmVars, uiVars >>

\* The data object the handler passes to Message.create.
CreateMessageData(h) ==
    [user_id |-> user[h].id, telegram_message_id |-> upd[h].message_id,
     chat_id |-> upd[h].chat.id, text |-> upd[h].text]

\* await Message.create({...}); then the handler logs and returns.
CreateMessage(h) ==
    /\ pc[h] = "create"
    /\ messages' = InsertMessage(messages, messagesSeq + 1, CreateMessageData(h), now)
    /\ ret' = [ret EXCEPT ![h] =
                 InsertMessageReturning(messages, messagesSeq + 1, CreateMessageData(h), now)]
    /\ messagesSeq' = messagesSeq + 1
    /\ pc' = [pc EXCEPT ![h] = "done"]
    /\ outcome' = [outcome EXCEPT ![h] = "saved"]
    /\ UNCHANGED << users, usersSeq, now, upd, user, delivered, envVars,
                    lastCall, returnedIds, pureVars, statsVars, textVars, llmVars, uiVars >>

\* The handler's promise has settled; the handler slot takes the next update.
Finish(h) ==
    /\ pc[h] = "done"
    /\ pc' = [pc EXCEPT ![h] = "idle"]
    /\ upd' = [upd EXCEPT ![h] = NoUpdate]
    /\ user' = [user EXCEPT ![h] = NoUser]
    /\ ret' = [ret EXCEPT ![h] = << >>]
    /\ outcome' = [outcome EXCEPT ![h] = "none"]
    /\ UNCHANGED << users, messages, usersSeq, messagesSeq, now, delivered,
                    envVars, lastCall, returnedIds, pureVars, statsVars, textVars, llmVars, uiVars >>

Next ==
    \E h \in Handlers :
        \/ Receive(h)
        \/ SelectUser(h)
        \/ UpdateUser(h)
        \/ InsertUser(h)
        \/ CreateMessage(h)
        \/ Finish(h)

Spec == Init /\ [][Next]_vars

(***************************************************************************)
(* StatsService.getChatStats / getUserStats: one action per await point.   *)
(***************************************************************************)
ingestAndPure == << ingestVars, envVars, pureVars, textVars, llmVars, uiVars >>

\* A stats handler calls getChatStats(chatId, period): the key is computed
\* and redisClient.get(cacheKey) is issued.
StartChatStats(p) ==
    /\ st[p].pc = "idle"
    /\ asked < MaxRequests
    /\ \E c \in StatsChatIds, per \in StatsPeriods :
          st' = [st EXCEPT ![p] =
                   [IdleCall EXCEPT !.pc = "get", !.kind = "chat", !.chatId = c,
                                    !.period = per,
                                    !.key = getCacheKey(c, per, Omitted)]]
    /\ asked' = asked + 1
    /\ UNCHANGED << ingestAndPure, now, cache, ticks >>

\* handleUserPeriodSelection calls getUserStats(chatId, targetUserId, period)
\* with the non-zero id of the pressing user.
StartUserStats(p) ==
    /\ st[p].pc = "idle"
    /\ asked < MaxRequests
    /\ \E c \in StatsChatIds, per \in StatsPeriods, u \in TelegramIds :
          st' = [st EXCEPT ![p] =
                   [IdleCall EXCEPT !.pc = "get", !.kind = "user", !.chatId = c,
                                    !.period = per, !.userId = u,
                                    !.key = getCacheKey(c, per, <<u>>)]]
    /\ asked' = asked + 1
    /\ UNCHANGED << ingestAndPure, now, cache, ticks >>

\* The cache read settles.  On a hit the parsed entry is returned; on a
\* miss or a failed read getChatStats computes the date range and issues
\* both queries, getUserStats issues User.findByTelegramId.
CacheGet(p) ==
    /\ st[p].pc = "get"
    /\ \E err \in {"none", "get", "parse"} :
        LET entries == CacheLookup(cache, st[p].key, now)
        IN  /\ err = "parse" => entries # {}
            /\ IF CacheReadOutcome(entries, err) = "hit"
                 THEN \E e \in entries :
                        st' = [st EXCEPT ![p].pc = "done",
                                         ![p].returnedAt = now,
                                         ![p].kReturn = messagesSeq,
                                         ![p].result = JsonParse(e.value),
                                         ![p].source = "cache",
                                         ![p].outcome = "returned",
                                         ![p].meta = e.meta]
                 ELSE st' = [st EXCEPT ![p].pc = IF st[p].kind = "chat"
                                                   THEN "query" ELSE "finduser",
                                       ![p].readError = err,
                                       ![p].rangeAt = now]
    /\ UNCHANGED << ingestAndPure, now, cache, asked, ticks >>

\* The result object getChatStats builds once both queries have resolved.
ChatResult(top, stats) ==
    << [topUsers |-> top, totalMessages |-> stats.totalMessages,
        totalUsers |-> stats.totalUsers] >>

\* Message.getTopUsersByMessageCount(10, {...dateRange, chatId}) runs.
RunTopUsers(p) ==
    /\ st[p].pc = "query" /\ ~st[p].topDone
    /\ \E t \in getTopUsersByMessageCount(messages, users, TopLimit, st[p].chatId,
                                          getDateRange(st[p].period, st[p].rangeAt)) :
          st' = [st EXCEPT ![p].top = t,
                           ![p].topDone = TRUE,
                           ![p].queries = @ + 1,
                           ![p].meta.kTop = messagesSeq,
                           ![p].meta.rangeAt = st[p].rangeAt,
                           ![p].meta.queriedAt = now,
                           ![p].result = IF st[p].statsDone
                                           THEN ChatResult(t, st[p].stats) ELSE << >>,
                           ![p].pc = IF st[p].statsDone THEN "set" ELSE "query"]
    /\ UNCHANGED << ingestAndPure, now, cache, asked, ticks >>

\* Message.getStats({...dateRange, chatId}) runs.
RunGetStats(p) ==
    /\ st[p].pc = "query" /\ ~st[p].statsDone
    /\ LET r == getStats(messages, st[p].chatId,
                         getDateRange(st[p].period, st[p].rangeAt))
       IN  st' = [st EXCEPT ![p].stats = r,
                            ![p].statsDone = TRUE,
                            ![p].queries = @ + 1,
                            ![p].meta.kStats = messagesSeq,
                            ![p].meta.rangeAt = st[p].rangeAt,
                            ![p].meta.queriedAt = now,
                            ![p].result = IF st[p].topDone
                                            THEN ChatResult(st[p].top, r) ELSE << >>,
                            ![p].pc = IF st[p].topDone THEN "set" ELSE "query"]
    /\ UNCHANGED << ingestAndPure, now, cache, asked, ticks >>

\* getUserStats: User.findByTelegramId(userId) runs; an unknown user makes
\* the call return null, otherwise the date range is computed and
\* Message.countByUserId is issued.
FindUser(p) ==
    /\ st[p].pc = "finduser"
    /\ LET rows == SelectUserByTelegramId(st[p].userId)
       IN  IF rows = {}
             THEN st' = [st EXCEPT ![p].pc = "done",
                                   ![p].returnedAt = now,
                                   ![p].kReturn = messagesSeq,
                                   ![p].queries = @ + 1,
                                   ![p].result = << >>,
                                   ![p].source = "store",
                                   ![p].outcome = "returned",
                                   ![p].meta.kUser = usersSeq]
             ELSE \E r \in rows :
                    st' = [st EXCEPT ![p].pc = "count",
                                     ![p].queries = @ + 1,
                                     ![p].userRow = r,
                                     ![p].rangeAt = now,
                                     ![p].meta.kUser = usersSeq]
    /\ UNCHANGED << ingestAndPure, now, cache, asked, ticks >>

\* getUserStats: Message.countByUserId(user.id, {...dateRange, chatId}) runs
\* and the result object is built.
CountMessages(p) ==
    /\ st[p].pc = "count"
    /\ LET n == countByUserId(messages, st[p].userRow.id, st[p].chatId,
                              getDateRange(st[p].period, st[p].rangeAt))
       IN  st' = [st EXCEPT ![p].pc = "set",
                            ![p].queries = @ + 1,
                            ![p].meta.kStats = messagesSeq,
                            ![p].meta.kTop = messagesSeq,
                            ![p].meta.rangeAt = st[p].rangeAt,
                            ![p].meta.queriedAt = now,
                            ![p].result = << [userId |-> st[p].userRow.id,
                                              username |-> st[p].userRow.username,
                                              firstName |-> st[p].userRow.first_name,
                                              messageCount |-> n,
                                              period |-> st[p].period] >>]
    /\ UNCHANGED << ingestAndPure, now, cache, asked, ticks >>

\* redisClient.setEx(cacheKey, CACHE_TTL, JSON.stringify(result)) settles,
\* with or without an error, and the call returns result.
CacheSet(p) ==
    /\ st[p].pc = "set"
    /\ \E failed \in BOOLEAN :
          IF failed
            THEN /\ st' = [st EXCEPT ![p].pc = "done",
                                     ![p].returnedAt = now,
                                     ![p].kReturn = messagesSeq,
                                     ![p].source = "store",
                                     ![p].writeError = TRUE,
                                     ![p].outcome = AfterCacheWriteError]
                 /\ UNCHANGED cache
            ELSE /\ cache' = CacheStore(cache, st[p].key, JsonStringify(st[p].result), now,
                                        [st[p].meta EXCEPT !.writtenAt = now])
                 /\ st' = [st EXCEPT ![p].pc = "done",
                                     ![p].returnedAt = now,
                                     ![p].kReturn = messagesSeq,
                                     ![p].source = "store",
                                     ![p].writes = @ + 1,
                                     ![p].meta.writtenAt = now,
                                     ![p].outcome = "returned"]
    /\ UNCHANGED << ingestAndPure, now, asked, ticks >>

\* The caller has the value; the slot is free for the next call.
FinishStats(p) ==
    /\ st[p].pc = "done"
    /\ st' = [st EXCEPT ![p] = IdleCall]
    /\ UNCHANGED << ingestAndPure, now, cache, asked, ticks >>

\* Time passes.
Tick ==
    /\ ticks < MaxTicks
    /\ ticks' = ticks + 1
    /\ now' = AddSeconds(now, TickSeconds)
    /\ UNCHANGED << ingestAndPure, cache, st, asked >>

NextStats ==
    \/ \E h \in Handlers :
        \/ Receive(h)
        \/ SelectUser(h)
        \/ UpdateUser(h)
        \/ InsertUser(h)
        \/ CreateMessage(h)
        \/ Finish(h)
    \/ \E p \in StatsCalls :
        \/ StartChatStats(p)
        \/ StartUserStats(p)
        \/ CacheGet(p)
        \/ RunTopUsers(p)
        \/ RunGetStats(p)
        \/ FindUser(p)
        \/ CountMessages(p)
        \/ CacheSet(p)
        \/ FinishStats(p)
    \/ Tick

\* Ingestion, statistics calls and the clock, interleaved.
SpecStats == InitStats /\ [][NextStats]_vars

(***************************************************************************)
(* The pure helpers of StatsService, applied to the chosen arguments.      *)
(***************************************************************************)
CallGetCacheKey ==
    /\ keyArgs # << >> /\ keyOut = << >>
    /\ keyOut' = << getCacheKey(keyArgs[1].chatId, keyArgs[1].period, keyArgs[1].userId),
                    getCacheKey(keyArgs[2].chatId, keyArgs[2].period, keyArgs[2].userId) >>
    /\ UNCHANGED << ingestVars, now, envVars, keyArgs, rangeArgs, rangeOut, statsVars, textVars, llmVars, uiVars >>

SpecKey == InitKey /\ [][CallGetCacheKey]_vars

CallGetDateRange ==
    /\ rangeArgs # << >> /\ rangeOut = << >>
    /\ rangeOut' = << getDateRange(rangeArgs[1].period, rangeArgs[1].at) >>
    /\ UNCHANGED << ingestVars, now, envVars, keyArgs, keyOut, rangeArgs, statsVars, textVars, llmVars, uiVars >>

SpecRange == InitRange /\ [][CallGetDateRange]_vars

\* The same handlers, run strictly one after another.
SpecSeq == InitSeq /\ [][Next]_vars

(***************************************************************************)
(* The prompt builders and the response parser, applied to the chosen      *)
(* arguments.                                                              *)
(***************************************************************************)
InitPrompt ==
    /\ InitCommon /\ InitPureIdle /\ InitLlmIdle /\ serial = FALSE /\ inbox = Updates
    /\ promptArgs \in { << a >> : a \in PromptInputs }
    /\ promptOut = << >>
    /\ parseArgs = << >>
    /\ parseOut = << >>

CallCreatePrompt ==
    /\ promptArgs # << >> /\ promptOut = << >>
    /\ promptOut' =
         << IF promptArgs[1].builder = "analysis"
              THEN createAnalysisPrompt(promptArgs[1].messages, "ann", "Ann")
              ELSE createDigestPrompt(promptArgs[1].messages, "segodnya") >>
    /\ UNCHANGED << ingestVars, now, envVars, pureVars, statsVars,
                    promptArgs, parseArgs, parseOut, llmVars, uiVars >>

SpecPrompt == InitPrompt /\ [][CallCreatePrompt]_vars

InitParse ==
    /\ InitCommon /\ InitPureIdle /\ InitLlmIdle /\ serial = FALSE /\ inbox = Updates
    /\ promptArgs = << >>
    /\ promptOut = << >>
    /\ parseArgs \in { << lines >> : lines \in ParseInputs }
    /\ parseOut = << >>

\* parseAnalysisResponse(analysisText, messages.length, averageLength)
CallParse ==
    /\ parseArgs # << >> /\ parseOut = << >>
    /\ parseOut' = << parseAnalysisResponse(JoinLines(parseArgs[1]), 3, 12) >>
    /\ UNCHANGED << ingestVars, now, envVars, pureVars, statsVars,
                    promptArgs, promptOut, parseArgs, llmVars, uiVars >>

SpecParse == InitParse /\ [][CallParse]_vars

(***************************************************************************)
(* handleAnalyzeCommand.                                                   *)
(***************************************************************************)
AnalyzeCommands ==
    { [reply |-> 5, mention |-> "",    from |-> 6],
      [reply |-> 9, mention |-> "",    from |-> 6],
      [reply |-> 0, mention |-> "bob", from |-> 5],
      [reply |-> 0, mention |-> "zed", from |-> 5],
      [reply |-> 0, mention |-> "",    from |-> 7],
      [reply |-> 0, mention |-> "",    from |-> 0] }

\* The catch block of handleAnalyzeCommand: the text shown for an error.
ErrorMessageFor(e) ==
    IF MessageIncludes(e, "limit") THEN "rate limit, wait a minute"
    ELSE IF MessageIncludes(e, "too large") THEN "too much data"
    ELSE IF MessageIncludes(e, "API key") THEN "problem with API access"
    ELSE "an error occurred"

\* The command arrives: the target is the replied-to sender, or is looked
\* up by the @username, or is the sender of the command; without a target
\* the usage text is sent.
AnalyzeCommand ==
    /\ an.pc = "idle" /\ ad.pc = "idle"
    /\ an.served < MaxCommands
    /\ \E c \in AnalyzeCommands :
          an' = IF c.reply # 0
                  THEN [an EXCEPT !.pc = "lookup", !.cmd = c, !.target = c.reply]
                ELSE IF c.mention # ""
                  THEN [an EXCEPT !.pc = "byname", !.cmd = c]
                ELSE IF c.from # 0
                  THEN [an EXCEPT !.pc = "lookup", !.cmd = c, !.target = c.from]
                ELSE [an EXCEPT !.pc = "done", !.cmd = c, !.shown = "usage"]
    /\ UNCHANGED << ingestVars, now, envVars, pureVars, statsVars, textVars,
                    keys, geminiModel, ad, dg, uiVars >>

\* const user = await User.findByUsername(username)
AnalyzeFindByUsername ==
    /\ an.pc = "byname"
    /\ LET found == findByUsername(an.cmd.mention)
       IN  IF found = {}
             THEN an' = [an EXCEPT !.pc = "done", !.shown = "username not found"]
             ELSE \E u \in found :
                     an' = [an EXCEPT !.pc = "lookup", !.target = u.telegram_id]
    /\ UNCHANGED << ingestVars, now, envVars, pureVars, statsVars, textVars,
                    keys, geminiModel, ad, dg, uiVars >>

\* The placeholder message is sent; const user = await
\* User.findByTelegramId(targetUserId)
AnalyzeLookup ==
    /\ an.pc = "lookup"
    /\ LET found == findByTelegramId(an.target)
       IN  IF found = {}
             THEN an' = [an EXCEPT !.pc = "done", !.shown = "user not found"]
             ELSE \E u \in found :
                     an' = [an EXCEPT !.pc = "loop", !.userRow = << u >>, !.idx = 1]
    /\ UNCHANGED << ingestVars, now, envVars, pureVars, statsVars, textVars,
                    keys, geminiModel, ad, dg, uiVars >>

\* One pass of the for loop up to its await: a provider that is not
\* available is skipped, an available one has its analyzeUser called.
AnalyzeTryProvider ==
    /\ an.pc = "loop" /\ an.idx \in DOMAIN analyzeProviders
    /\ LET p == analyzeProviders[an.idx]
       IN  IF ~keys[p]
             THEN /\ an' = [an EXCEPT !.idx = @ + 1]
                  /\ UNCHANGED << ad, geminiModel >>
             ELSE /\ an' = [an EXCEPT !.pc = "calling", !.attempts = Append(@, p)]
                  /\ ad' = Begun("handler", p, "bot", an.target, "")
                  /\ geminiModel' = ModelAfterBegin(p, "bot")
    /\ UNCHANGED << ingestVars, now, envVars, pureVars, statsVars, textVars, keys, dg, uiVars >>

\* analyzeUser has returned (break) or raised (catch, next provider).
AnalyzeProviderDone ==
    /\ an.pc = "calling" /\ ad.pc = "done" /\ ad.caller = "handler"
    /\ LET p == analyzeProviders[an.idx]
       IN  IF ad.outcome = "returned"
             THEN an' = [an EXCEPT !.pc = "finish", !.analysis = ad.value,
                                   !.usedService = p]
             ELSE an' = [an EXCEPT
                           !.pc = "loop", !.idx = @ + 1,
                           !.lastError = ad.error,
                           !.failures = Append(@, [provider |-> p, error |-> ad.error[1]]),
                           !.deepseekInsufficient =
                               @ \/ (p = "DeepSeek" /\ MessageIncludes(ad.error[1],
                                                          "INSUFFICIENT_BALANCE"))]
    /\ ad' = IdleAdapter
    /\ UNCHANGED << ingestVars, now, envVars, pureVars, statsVars, textVars,
                    keys, geminiModel, dg, uiVars >>

\* The last error, whatever DeepSeek's balance.
ErrorAfterLoopLastOnly(a) ==
    IF a.lastError # << >> THEN a.lastError[1] ELSE NoProviderError
\* The error thrown after the loop when there is no analysis.
ErrorAfterLoop(a) ==
    IF a.deepseekInsufficient /\ ~keys["Qwen"] /\ ~keys["Gemini"]
      THEN NoAlternativeError
    ELSE IF a.lastError # << >> THEN a.lastError[1]
    ELSE NoProviderError

\* After the loop: without an analysis an error is thrown and the catch
\* block edits the placeholder to the text for that error; with one, the
\* formatted result is shown.
AnalyzeFinish ==
    /\ \/ an.pc = "finish"
       \/ an.pc = "loop" /\ an.idx = Len(analyzeProviders) + 1
    /\ an' = IF an.analysis = << >>
               THEN [an EXCEPT !.pc = "done",
                               !.thrown = << ErrorAfterLoop(an) >>,
                               !.shown = ErrorMessageFor(ErrorAfterLoop(an))]
               ELSE [an EXCEPT !.pc = "done", !.shown = "analysis"]
    /\ UNCHANGED << ingestVars, now, envVars, pureVars, statsVars, textVars,
                    keys, geminiModel, ad, dg, uiVars >>

\* The handler has ended; the next command may come.
AnalyzeEnd ==
    /\ an.pc = "done"
    /\ an' = [IdleAnalyze EXCEPT !.served = an.served + 1]
    /\ UNCHANGED << ingestVars, now, envVars, pureVars, statsVars, textVars,
                    keys, geminiModel, ad, dg, uiVars >>

(***************************************************************************)
(* analyzeUser called on its own (the adapters are public static methods;  *)
(* the dashboard route calls its analyzeUserWith... functions without an   *)
(* isAvailable() test).                                                    *)
(***************************************************************************)
DirectTargets == { 5, 6, 7, 9 }

DirectNames == { "ann", "bob", "zed" }

DirectCall ==
    /\ an.pc = "idle" /\ ad.pc = "idle"
    /\ an.served < MaxCommands
    /\ \E p \in Providers :
          \/ \E t \in DirectTargets :
                /\ ad' = Begun("direct", p, "bot", t, "")
                /\ geminiModel' = ModelAfterBegin(p, "bot")
          \/ \E n \in DirectNames :
                /\ ad' = Begun("direct", p, "web", 0, n)
                /\ geminiModel' = ModelAfterBegin(p, "web")
    /\ UNCHANGED << ingestVars, now, envVars, pureVars, statsVars, textVars, keys, an, dg, uiVars >>

DirectEnd ==
    /\ ad.pc = "done" /\ ad.caller = "direct"
    /\ ad' = IdleAdapter
    /\ an' = [an EXCEPT !.served = @ + 1]
    /\ UNCHANGED << ingestVars, now, envVars, pureVars, statsVars, textVars,
                    keys, geminiModel, dg, uiVars >>

\* The store the analysis runs on: ann has three long messages, bob is
\* known without a stored message (the state between User.findOrCreate and
\* Message.create of his first text), carl has two short messages.
AnalyzeUsers ==
    { NewUserRow(1, [telegram_id |-> 5, username |-> "ann", first_name |-> "Anna",
                     last_name |-> "Lee"]),
      NewUserRow(2, [telegram_id |-> 6, username |-> "bob", first_name |-> "Bob",
                     last_name |-> UNDEFINED]),
      NewUserRow(3, [telegram_id |-> 7, username |-> UNDEFINED, first_name |-> "Carl",
                     last_name |-> UNDEFINED]) }

LongText(tag) == [tag |-> tag, length |-> 2500]

ShortText(tag) == [tag |-> tag, length |-> 20]

AnalyzeMessages ==
    { NewMessageRow(1, [user_id |-> 1, telegram_message_id |-> 1, chat_id |-> -100,
                        text |-> LongText("first")], StartTime),
      NewMessageRow(2, [user_id |-> 3, telegram_message_id |-> 2, chat_id |-> -100,
                        text |-> ShortText("hello")], StartTime),
      NewMessageRow(3, [user_id |-> 1, telegram_message_id |-> 3, chat_id |-> -100,
                        text |-> LongText("second")], AddSeconds(StartTime, 60)),
      NewMessageRow(4, [user_id |-> 3, telegram_message_id |-> 4, chat_id |-> -100,
                        text |-> ShortText("bye")], AddSeconds(StartTime, 60)),
      NewMessageRow(5, [user_id |-> 1, telegram_message_id |-> 5, chat_id |-> -100,
                        text |-> LongText("third")], AddSeconds(StartTime, 120)) }

InitAnalyze ==
    /\ InitIdle /\ InitPureIdle /\ InitTextIdle
    /\ serial = TRUE /\ inbox = {}
    /\ users = AnalyzeUsers
    /\ messages = AnalyzeMessages
    /\ usersSeq = 3
    /\ messagesSeq = 5
    /\ delivered = 5
    /\ lastCall = [t \in TelegramIds |-> NoFrom]
    /\ returnedIds = [t \in TelegramIds |-> {}]
    /\ keys \in [Providers -> BOOLEAN]
    /\ geminiModel = "none"
    /\ an = IdleAnalyze
    /\ ad = IdleAdapter
    /\ dg = IdleDigest

NextAnalyze ==
    \/ AnalyzeCommand
    \/ AnalyzeFindByUsername
    \/ AnalyzeLookup
    \/ AnalyzeTryProvider
    \/ AnalyzeProviderDone
    \/ AnalyzeFinish
    \/ AnalyzeEnd
    \/ DirectCall
    \/ DirectEnd
    \/ AdapterFindUser
    \/ AdapterGetMessages
    \/ AdapterRequest
    \/ GeminiCall
    \/ GeminiAfterRetry
    \/ WebGeminiCall

SpecAnalyze == InitAnalyze /\ [][NextAnalyze]_vars

(***************************************************************************)
(* DigestService.generateDigest: reading the sections of the LLM answer.   *)
(* The answer is a sequence of tokens: a section label, a line feed, a     *)
(* blank, a hyphen or a word.  The Russian labels and defaults are written *)
(* in Latin letters: 'Temy:' for 'Темы:', 'Ton:' for 'Тон:'.               *)
(***************************************************************************)
MaxDigestTokens == 4

\* The labels as the /i regular expressions take them.
SummaryLabels == { "Summary:" }

ActionLabels == { "Action items:", "action items:" }

ContextLabels == { "Context:" }

TopicLabels == { "Temy:" }

ToneLabels == { "Ton:" }

\* ['Нет явных задач.'], 'Не указаны', 'Не указан'
NoExplicitTasks == << << "no explicit tasks." >> >>

TopicsNotSpecified == << "topics not specified" >>

ToneNotSpecified == << "tone not specified" >>

\* \s of the regular expressions and the white space trim() removes
DigestSpace == { " ", "\n" }

RECURSIVE SkipSpace(_)
SkipSpace(text) ==
    IF text # << >> /\ Head(text) \in DigestSpace THEN SkipSpace(Tail(text)) ELSE text

RECURSIVE DropSpaceAtEnd(_)
DropSpaceAtEnd(text) ==
    IF text # << >> /\ text[Len(text)] \in DigestSpace
      THEN DropSpaceAtEnd(SubSeq(text, 1, Len(text) - 1))
      ELSE text

\* String.prototype.trim on a text of several lines
TrimText(text) == DropSpaceAtEnd(SkipSpace(text))

\* The index of the first token of the text that is in the set, or 0.
FirstIndex(text, set) ==
    IF \E i \in DOMAIN text : text[i] \in set
      THEN CHOOSE i \in DOMAIN text :
             text[i] \in set /\ \A j \in 1..(i - 1) : text[j] \notin set
      ELSE 0

\* raw.match(/Label:\s*([\s\S]*?)(?:Stop:|$)/i): << >> when there is no
\* match, else << group 1 >>: what follows the first label and its white
\* space, up to the first stop label or the end.
MatchSection(raw, labels, stops) ==
    LET i == FirstIndex(raw, labels)
    IN  IF i = 0 THEN << >>
        ELSE LET rest == SkipSpace(SubSeq(raw, i + 1, Len(raw)))
                 j    == FirstIndex(rest, stops)
             IN  << IF j = 0 THEN rest ELSE SubSeq(rest, 1, j - 1) >>

\* ctx.match(/Темы:\s*(.*)/i): group 1 ends at the line feed.
MatchLine(ctx, labels) == MatchSection(ctx, labels, { "\n" })

\* match?.[1] || other
GroupOr(match, other) ==
    IF match # << >> /\ match[1] # << >> THEN match[1] ELSE other

\* line.replace(/^-+\s*/, '')
RECURSIVE StripHyphens(_)
StripHyphens(line) ==
    IF line # << >> /\ Head(line) = "-" THEN StripHyphens(Tail(line)) ELSE line

StripMarker(line) ==
    IF line # << >> /\ Head(line) = "-" THEN SkipSpace(StripHyphens(line)) ELSE line

\* actionBlock.split('\n').map((line) => line.replace(/^-+\s*/, '').trim())
\*            .filter(Boolean)
ItemLines(actionBlock) ==
    LET pieces == SplitLines(actionBlock, << >>)
    IN  SelectSeq([i \in DOMAIN pieces |-> TrimText(StripMarker(pieces[i]))],
                  LAMBDA l : l # << >>)

\* The part of generateDigest after generateWithLLM has answered raw.
parseDigest(raw) ==
    LET summaryMatch == MatchSection(raw, SummaryLabels, ActionLabels)
        actionMatch  == MatchSection(raw, ActionLabels, ContextLabels)
        contextMatch == MatchSection(raw, ContextLabels, { })
        actionBlock  == TrimText(GroupOr(actionMatch, << >>))
        ctx          == IF contextMatch = << >> THEN << >> ELSE contextMatch[1]
        topicsMatch  == IF contextMatch = << >> THEN << >> ELSE MatchLine(ctx, TopicLabels)
        toneMatch    == IF contextMatch = << >> THEN << >> ELSE MatchLine(ctx, ToneLabels)
    IN  [summary     |-> TrimText(GroupOr(summaryMatch, raw)),
         actionItems |-> IF actionBlock # << >> THEN ItemLines(actionBlock)
                                                ELSE NoExplicitTasks,
         topics      |-> IF topicsMatch # << >> /\ topicsMatch[1] # << >>
                           THEN TrimText(topicsMatch[1]) ELSE TopicsNotSpecified,
         tone        |-> IF toneMatch # << >> /\ toneMatch[1] # << >>
                           THEN TrimText(toneMatch[1]) ELSE ToneNotSpecified]

DigestTokens ==
    SummaryLabels \cup ActionLabels \cup ContextLabels \cup TopicLabels \cup ToneLabels
      \cup { "\n", " ", "-", "task" }

DigestAnswers == UNION { [1..n -> DigestTokens] : n \in 0..MaxDigestTokens }

InitDigestParse ==
    /\ InitCommon /\ InitPureIdle /\ InitLlmIdle /\ serial = FALSE /\ inbox = Updates
    /\ promptArgs = << >>
    /\ promptOut = << >>
    /\ parseArgs \in { << raw >> : raw \in DigestAnswers }
    /\ parseOut = << >>

CallParseDigest ==
    /\ parseArgs # << >> /\ parseOut = << >>
    /\ parseOut' = << parseDigest(parseArgs[1]) >>
    /\ UNCHANGED << ingestVars, now, envVars, pureVars, statsVars,
                    promptArgs, promptOut, parseArgs, llmVars, uiVars >>

SpecDigestParse == InitDigestParse /\ [][CallParseDigest]_vars

(***************************************************************************)
(* DigestService.generateWithLLM.                                          *)
(***************************************************************************)
\* A digest text a provider answers with, and the JSON text of a content
\* that is an array of parts.
DigestText == << "digest" >>

PartsJson == << "[parts]" >>

\* What the request of a provider may give: the text returned, or the
\* error thrown inside the try block.
\* Qwen: create() throws; no choice or an empty or null content ('Пустой
\* ответ от Qwen'); a string; an array (JSON.stringify).
QwenDigestOutcomes ==
    { [text |-> << >>, error |-> << OpenAIError >>],
      [text |-> << >>, error |-> << EmptyAnswerError("Qwen") >>],
      [text |-> << DigestText >>, error |-> << >>],
      [text |-> << PartsJson >>, error |-> << >>] }

\* Gemini: generateContent() or response.text() throws; otherwise
\* return response.text(), whatever the text.
GeminiDigestOutcomes ==
    { [text |-> << >>, error |-> << e >>] : e \in GeminiErrors }
    \cup { [text |-> << DigestText >>, error |-> << >>],
           [text |-> << EmptyText >>, error |-> << >>] }

\* DeepSeek: fetch throws; a body without content (an error body of any
\* status, or an empty completion) gives 'Пустой ответ от DeepSeek'; a text.
DeepSeekDigestOutcomes ==
    { [text |-> << >>, error |-> << TransportError >>],
      [text |-> << >>, error |-> << EmptyAnswerError("DeepSeek") >>],
      [text |-> << DigestText >>, error |-> << >>] }

DigestOutcomes(p) ==
    CASE p = "Qwen"     -> QwenDigestOutcomes
      [] p = "Gemini"   -> GeminiDigestOutcomes
      [] p = "DeepSeek" -> DeepSeekDigestOutcomes

\* generateWithLLM(prompt) is called.
\* const raw = await this.generateWithLLM(prompt)
DigestStart ==
    /\ dh.pc = "llm"
    /\ dg.pc = "idle"
    /\ dg' = [dg EXCEPT !.pc = "loop", !.idx = 1]
    /\ dh' = [dh EXCEPT !.pc = "waiting", !.llmCalls = @ + 1]
    /\ UNCHANGED << ingestVars, now, envVars, pureVars, statsVars, textVars,
                    keys, geminiModel, an, ad, webVars, menu >>

\* One pass of the for loop up to its await: none of the three if
\* statements applies to a provider that is not available; for an
\* available one the request is sent.
DigestTry ==
    /\ dg.pc = "loop" /\ dg.idx \in DOMAIN digestProviders
    /\ LET p == digestProviders[dg.idx]
       IN  dg' = IF keys[p]
                   THEN [dg EXCEPT !.pc = "calling", !.contacted = Append(@, p)]
                   ELSE [dg EXCEPT !.idx = @ + 1]
    /\ UNCHANGED << ingestVars, now, envVars, pureVars, statsVars, textVars,
                    keys, geminiModel, an, ad, uiVars >>

\* The request settles: the text is returned, or the error is caught,
\* kept as lastError, and the loop goes on.
DigestSettle ==
    /\ dg.pc = "calling"
    /\ LET p == digestProviders[dg.idx]
       IN  \E o \in DigestOutcomes(p) :
              LET noted == [dg EXCEPT !.answers = Append(@, [provider |-> p, text |-> o.text,
                                                             error |-> o.error])]
              IN  dg' = IF o.error = << >>
                          THEN [noted EXCEPT !.pc = "done", !.outcome = "returned",
                                             !.text = o.text[1]]
                          ELSE [noted EXCEPT !.pc = "loop", !.idx = @ + 1,
                                             !.lastError = o.error]
    /\ UNCHANGED << ingestVars, now, envVars, pureVars, statsVars, textVars,
                    keys, geminiModel, an, ad, uiVars >>

\* throw lastError || new Error('Все LLM-провайдеры недоступны для дайджеста')
DigestThrow ==
    /\ dg.pc = "loop" /\ dg.idx = Len(digestProviders) + 1
    /\ dg' = [dg EXCEPT !.pc = "done", !.outcome = "raised",
                        !.error = IF dg.lastError # << >> THEN dg.lastError
                                  ELSE << AllUnavailableError >>]
    /\ UNCHANGED << ingestVars, now, envVars, pureVars, statsVars, textVars,
                    keys, geminiModel, an, ad, uiVars >>

\* generateWithLLM has ended: generateDigest reads the sections of the text
\* and returns the record, which the handler renders; an error raised goes
\* to the catch block of the handler.
DigestEnd ==
    /\ dg.pc = "done"
    /\ dh.pc = "waiting"
    /\ dg' = [IdleDigest EXCEPT !.served = dg.served + 1]
    /\ dh' = IF dg.outcome = "returned"
               THEN [dh EXCEPT !.pc = "edit", !.digest = "result",
                               !.result = << parseDigest(dg.text) >>]
               ELSE [dh EXCEPT !.pc = "innerCatch"]
    /\ UNCHANGED << ingestVars, now, envVars, pureVars, statsVars, textVars,
                    keys, geminiModel, an, ad, webVars, menu >>

(***************************************************************************)
(* handleDigestCommand and DigestService.generateDigest.  A Telegram call  *)
(* (ctx.reply, editMessageText) and the query of the store may fail.  The  *)
(* texts are named in English.                                             *)
(***************************************************************************)
\* '❌ Дайджест доступен только в групповых чатах.'
OnlyGroupsText == [kind |-> "only in group chats", body |-> << >>]

\* '⏳ Собираю сообщения за сегодня и готовлю дайджест…'
PlaceholderText == [kind |-> "collecting messages", body |-> << >>]

\* '📭 За сегодня пока нет сообщений для дайджеста.'
NothingToDigestText == [kind |-> "nothing to digest", body |-> << >>]

\* '❌ Не удалось сформировать дайджест. Попробуйте позже.'
DigestFailedText == [kind |-> "digest failed", body |-> << >>]

\* 'Произошла ошибка при формировании дайджеста.'
DigestErrorText == [kind |-> "digest error", body |-> << >>]

\* The text of the digest message.
DigestMessageText(digest) ==
    [kind |-> "digest",
     body |-> << [summary |-> digest.summary,
                  items   |-> IF Len(digest.actionItems) # 0 THEN digest.actionItems
                                                             ELSE NoExplicitTasks,
                  topics  |-> digest.topics,
                  tone    |-> digest.tone] >>]

\* DigestService.getDateRange(period) at the time at
digestDateRange(period, at) ==
    IF period = "yesterday"
      THEN [startDate |-> MakeDate(at.year, at.month, at.date - 1, 0),
            endDate   |-> MakeDate(at.year, at.month, at.date, 0)]
      ELSE [startDate |-> MakeDate(at.year, at.month, at.date, 0), endDate |-> at]

\* WHERE chat_id = $1 (the dates left out of the condition)
InChat(m, chatId, range) == m.chat_id = chatId

\* WHERE chat_id = $1 AND created_at >= $2 AND created_at <= $3
InDigestWindow(m, chatId, range) ==
    /\ m.chat_id = chatId
    /\ DateLE(range.startDate, m.created_at)
    /\ DateLE(m.created_at, range.endDate)

\* ORDER BY created_at ASC LIMIT $4: the orders the query may give the rows in
OrderedOldestFirst(rows, limit) ==
    LET n == Cardinality(rows)
        all == { s \in [1..n -> rows] :
                   /\ \A i, j \in 1..n : i # j => s[i] # s[j]
                   /\ \A i, j \in 1..n : i < j => DateLE(s[i].created_at, s[j].created_at) }
    IN  { SubSeq(s, 1, IF n < limit THEN n ELSE limit) : s \in all }

\* maxMessages: options.maxMessages ?? 200
DigestMaxMessages == 200

\* DigestService.getChatMessages({ chatId, period, maxMessages })
getChatMessages(chatId, period, maxMessages) ==
    { TextsOf(s) :
        s \in OrderedOldestFirst({ m \in messages :
                                     InDigestWindow(m, chatId, digestDateRange(period, now)) },
                                 maxMessages) }

\* One more call of Telegram by the handler.
Called(h, method, text, ok) ==
    [h EXCEPT !.calls = Append(@, [method |-> method, text |-> text, ok |-> ok])]

\* /digest arrives: the test of the chat type and the first ctx.reply.
DigestCommand ==
    /\ dh.pc = "idle"
    /\ dh.served < MaxDigests
    /\ \E chat \in Chats, ok \in BOOLEAN :
          LET begun == [dh EXCEPT !.chat = chat]
          IN  dh' = IF ~IsGroupChat(chat)
                      THEN [Called(begun, "reply", OnlyGroupsText, ok)
                              EXCEPT !.pc = IF ok THEN "done" ELSE "outerCatch"]
                      ELSE [Called(begun, "reply", PlaceholderText, ok)
                              EXCEPT !.pc = IF ok THEN "messages" ELSE "outerCatch"]
    /\ UNCHANGED << ingestVars, now, envVars, pureVars, statsVars, textVars, llmVars, webVars, menu >>

\* generateDigest up to generateWithLLM: the query; null for no rows, else
\* the prompt.
DigestGetMessages ==
    /\ dh.pc = "messages"
    /\ \/ dh' = [dh EXCEPT !.pc = "innerCatch"]
       \/ \E rows \in getChatMessages(dh.chat.id, "today", DigestMaxMessages) :
             dh' = IF Len(rows) = 0
                     THEN [dh EXCEPT !.pc = "edit", !.digest = "null"]
                     ELSE [dh EXCEPT !.pc = "llm", !.rows = rows,
                                     !.prompt = << createDigestPrompt(rows, "segodnya") >>]
    /\ UNCHANGED << ingestVars, now, envVars, pureVars, statsVars, textVars, llmVars, webVars, menu >>

\* editMessageText with the 'nothing to digest' text or with the digest
DigestEdit ==
    /\ dh.pc = "edit"
    /\ \E ok \in BOOLEAN :
          LET text == IF dh.digest = "null" THEN NothingToDigestText
                      ELSE DigestMessageText(dh.result[1])
          IN  dh' = [Called(dh, "editMessageText", text, ok)
                       EXCEPT !.pc = IF ok THEN "done" ELSE "innerCatch"]
    /\ UNCHANGED << ingestVars, now, envVars, pureVars, statsVars, textVars, llmVars, webVars, menu >>

\* The inner catch block: editMessageText with the failure text.
DigestInnerCatch ==
    /\ dh.pc = "innerCatch"
    /\ \E ok \in BOOLEAN :
          dh' = [Called(dh, "editMessageText", DigestFailedText, ok)
                   EXCEPT !.pc = IF ok THEN "done" ELSE "outerCatch"]
    /\ UNCHANGED << ingestVars, now, envVars, pureVars, statsVars, textVars, llmVars, webVars, menu >>

\* The outer catch block: ctx.reply, whose failure leaves the handler.
DigestOuterCatch ==
    /\ dh.pc = "outerCatch"
    /\ \E ok \in BOOLEAN :
          dh' = [Called(dh, "reply", DigestErrorText, ok)
                   EXCEPT !.pc = "done", !.escaped = ~ok]
    /\ UNCHANGED << ingestVars, now, envVars, pureVars, statsVars, textVars, llmVars, webVars, menu >>

\* The handler has ended; the next command may come.
DigestCommandEnd ==
    /\ dh.pc = "done"
    /\ dh' = [IdleDigestHandler EXCEPT !.served = dh.served + 1]
    /\ UNCHANGED << ingestVars, now, envVars, pureVars, statsVars, textVars, llmVars, webVars, menu >>

\* Chat -100 has messages of today and of yesterday, chat -200 of yesterday
\* only.
DigestMessages ==
    { NewMessageRow(1, [user_id |-> 1, telegram_message_id |-> 1, chat_id |-> -100,
                        text |-> ShortText("old")], AddSeconds(StartTime, -SecondsPerDay)),
      NewMessageRow(2, [user_id |-> 1, telegram_message_id |-> 2, chat_id |-> -100,
                        text |-> ShortText("morning")], MakeDate(2024, 2, 31, 30000)),
      NewMessageRow(3, [user_id |-> 3, telegram_message_id |-> 3, chat_id |-> -100,
                        text |-> ShortText("evening")], StartTime),
      NewMessageRow(4, [user_id |-> 3, telegram_message_id |-> 4, chat_id |-> -200,
                        text |-> ShortText("other")], AddSeconds(StartTime, -SecondsPerDay)) }

InitDigest ==
    /\ InitIdle /\ InitPureIdle /\ InitTextIdle
    /\ serial = TRUE /\ inbox = {}
    /\ users = AnalyzeUsers
    /\ messages = DigestMessages
    /\ usersSeq = 3
    /\ messagesSeq = 4
    /\ delivered = 4
    /\ lastCall = [t \in TelegramIds |-> NoFrom]
    /\ returnedIds = [t \in TelegramIds |-> {}]
    /\ keys \in [Providers -> BOOLEAN]
    /\ geminiModel = "none"
    /\ an = IdleAnalyze
    /\ ad = IdleAdapter
    /\ dg = IdleDigest

NextDigest ==
    \/ DigestCommand
    \/ DigestGetMessages
    \/ DigestStart
    \/ DigestTry
    \/ DigestSettle
    \/ DigestThrow
    \/ DigestEnd
    \/ DigestEdit
    \/ DigestInnerCatch
    \/ DigestOuterCatch
    \/ DigestCommandEnd

SpecDigest == InitDigest /\ [][NextDigest]_vars

(***************************************************************************)
(* The dashboard: POST /api/analyze and GET /api/overview.  A username is  *)
(* a sequence of pieces: '@', a blank, or letters.                         *)
(***************************************************************************)
MaxPosts == 2

\* recentAnalyses.length > 10
RecentLimit == 10

\* username.replace('@', ''): the first '@' of the string is taken out
RECURSIVE ReplaceFirstAt(_)
ReplaceFirstAt(chars) ==
    IF chars = << >> THEN << >>
    ELSE IF Head(chars) = "@" THEN Tail(chars)
    ELSE << Head(chars) >> \o ReplaceFirstAt(Tail(chars))

\* The string the pieces make.
RECURSIVE JoinChars(_)
JoinChars(chars) ==
    IF chars = << >> THEN "" ELSE Head(chars) \o JoinChars(Tail(chars))

\* const cleanUsername = username.replace('@', '').trim()
cleanUsername(chars) == JoinChars(Trim(ReplaceFirstAt(chars)))

\* ['qwen', 'gemini', 'deepseek'].includes(provider)
RouteProviderNames == { "qwen", "gemini", "deepseek" }

ServiceOf(p) == CASE p = "qwen" -> "Qwen" [] p = "gemini" -> "Gemini" [] p = "deepseek" -> "DeepSeek"

\* selected === 'auto' ? ['deepseek', 'qwen', 'gemini'] : [selected]
autoOrder == << "deepseek", "qwen", "gemini" >>

RouteOrder(provider) ==
    IF provider \in RouteProviderNames THEN << provider >> ELSE autoOrder

\* NextResponse.json({ error }, { status }) and NextResponse.json({ analysis })
ErrorAnswer(status, error) == [status |-> status, error |-> << error >>, analysis |-> << >>]

AnalysisAnswer(analysis) == [status |-> 200, error |-> << >>, analysis |-> analysis]

\* 'Username обязателен', 'Username не может быть пустым',
\* `Пользователь @${cleanUsername} не найден в базе данных`,
\* `Ошибка при анализе: ${message}`, 'Не удалось выполнить анализ пользователя'
UsernameRequired == Err("username is required", 0, {})

UsernameEmpty == Err("username must not be empty", 0, {})

UserNotFound(name) == Err("user not found: @" \o name, 0, {})

AnalysisFailed(e) == Err("analysis failed", 0, { e.name } \cup e.mentions)

NoAnalysisError == Err("could not analyse the user", 0, {})

\* What request.json() or pgPool.query throws.
JsonError == Err("SyntaxError: Unexpected token", 0, {})

StoreError == Err("Error: connection terminated", 0, {})

\* The request bodies: no username, a username that is not a string, and
\* usernames with and without '@'; a provider or none.
RouteUsernames ==
    { << >>, << "@" >>, << " " >>, << "ann" >>, << "@", "ann" >>, << "an", "@", "n" >>,
      << "bob" >>, << "zed" >>, << "@", "@", "ann" >> }

RouteBodies ==
    { [kind |-> k, chars |-> << >>, provider |-> UNDEFINED] : k \in { "invalid json", "missing", "number" } }
      \cup { [kind |-> "string", chars |-> c, provider |-> pr] :
               c \in RouteUsernames, pr \in RouteProviderNames \cup { UNDEFINED, "claude" } }

\* The handler answers.
Answered(w, answer) == [w EXCEPT !.pc = "done", !.status = answer.status, !.answer = << answer >>]

\* The entry of posted for an answer.
PostedEntry(w, answer) == [username |-> w.clean, status |-> answer.status]

\* POST arrives: the body is read and the username is tested and cleaned.
PostAnalyze ==
    /\ web.pc = "idle" /\ ad.pc = "idle" /\ an.pc = "idle"
    /\ web.served < MaxPosts
    /\ \E body \in RouteBodies :
          LET w     == [web EXCEPT !.body = body]
              clean == cleanUsername(body.chars)
              early == IF body.kind = "invalid json"
                         THEN << ErrorAnswer(500, AnalysisFailed(JsonError)) >>
                       ELSE IF body.kind # "string" \/ body.chars = << >>
                         THEN << ErrorAnswer(400, UsernameRequired) >>
                       ELSE IF clean = ""
                         THEN << ErrorAnswer(400, UsernameEmpty) >>
                       ELSE << >>
          IN  IF early # << >>
                THEN /\ web' = Answered(w, early[1])
                     /\ posted' = Append(posted, PostedEntry(w, early[1]))
                ELSE /\ web' = [w EXCEPT !.pc = "find", !.clean = clean]
                     /\ UNCHANGED posted
    /\ UNCHANGED << ingestVars, now, envVars, pureVars, statsVars, textVars, llmVars,
                    dh, menu, recentAnalyses, overviewRecentAnalyses, ov >>

\* const user = await findUserByUsername(cleanUsername); the provider order
RouteFindUser ==
    /\ web.pc = "find"
    /\ \/ LET answer == ErrorAnswer(500, AnalysisFailed(StoreError))
          IN  /\ web' = Answered(web, answer)
              /\ posted' = Append(posted, PostedEntry(web, answer))
       \/ IF findByUsername(web.clean) = {}
            THEN LET answer == ErrorAnswer(404, UserNotFound(web.clean))
                 IN  /\ web' = Answered(web, answer)
                     /\ posted' = Append(posted, PostedEntry(web, answer))
            ELSE /\ web' = [web EXCEPT !.pc = "loop", !.idx = 1,
                                       !.order = RouteOrder(web.body.provider)]
                 /\ UNCHANGED posted
    /\ UNCHANGED << ingestVars, now, envVars, pureVars, statsVars, textVars, llmVars,
                    dh, menu, recentAnalyses, overviewRecentAnalyses, ov >>

\* One pass of the for loop up to its await: analyzeUserWithQwen, -Gemini
\* or -Deepseek is called.
RouteTryProvider ==
    /\ web.pc = "loop" /\ web.idx \in DOMAIN web.order
    /\ web.analysis = << >>
    /\ LET p == ServiceOf(web.order[web.idx])
       IN  /\ web' = [web EXCEPT !.pc = "calling", !.attempts = Append(@, p)]
           /\ ad' = Begun("route", p, "web", 0, web.clean)
           /\ geminiModel' = ModelAfterBegin(p, "web")
    /\ UNCHANGED << ingestVars, now, envVars, pureVars, statsVars, textVars, keys, an, dg,
                    dh, menu, recentAnalyses, overviewRecentAnalyses, ov, posted >>

\* The call has returned (an analysis or null) or raised (lastError).
RouteProviderDone ==
    /\ web.pc = "calling" /\ ad.pc = "done" /\ ad.caller = "route"
    /\ web' = IF ad.outcome = "returned"
                THEN [web EXCEPT !.pc = "loop", !.idx = @ + 1, !.analysis = ad.value,
                                 !.outcomes = Append(@, IF ad.value = << >> THEN "null"
                                                                            ELSE "analysis")]
                ELSE [web EXCEPT !.pc = "loop", !.idx = @ + 1, !.lastError = ad.error,
                                 !.outcomes = Append(@, "raised")]
    /\ ad' = IdleAdapter
    /\ UNCHANGED << ingestVars, now, envVars, pureVars, statsVars, textVars,
                    keys, geminiModel, an, dg,
                    dh, menu, recentAnalyses, overviewRecentAnalyses, ov, posted >>

\* recentAnalyses.unshift(entry); if (recentAnalyses.length > 10)
\* recentAnalyses.length = 10
Unshift(list, entry) ==
    LET longer == << entry >> \o list
    IN  IF Len(longer) > RecentLimit THEN SubSeq(longer, 1, RecentLimit) ELSE longer

\* After the loop (break included): 500 without an analysis, else the entry
\* of recentAnalyses and the analysis.
RouteRespond ==
    /\ web.pc = "loop"
    /\ web.analysis # << >> \/ web.idx = Len(web.order) + 1
    /\ LET answer == IF web.analysis = << >>
                       THEN ErrorAnswer(500, AnalysisFailed(IF web.lastError # << >>
                                                              THEN web.lastError[1]
                                                              ELSE NoAnalysisError))
                       ELSE AnalysisAnswer(web.analysis)
       IN  /\ web' = Answered(web, answer)
           /\ posted' = Append(posted, PostedEntry(web, answer))
           /\ recentAnalyses' = IF web.analysis = << >> THEN recentAnalyses
                                ELSE Unshift(recentAnalyses,
                                             [username |-> web.clean, analyzedAt |-> now])
    /\ UNCHANGED << ingestVars, now, envVars, pureVars, statsVars, textVars, llmVars,
                    dh, menu, overviewRecentAnalyses, ov >>

\* The answer is out; the next request may come.
RouteEnd ==
    /\ web.pc = "done"
    /\ web' = [IdleRoute EXCEPT !.served = web.served + 1]
    /\ UNCHANGED << ingestVars, now, envVars, pureVars, statsVars, textVars, llmVars,
                    dh, menu, recentAnalyses, overviewRecentAnalyses, ov, posted >>

\* GET /api/overview: the totals are queried and the array recentAnalyses of
\* overview/route.ts goes into the answer; a failed query gives 500.
GetOverview ==
    /\ \E failed \in BOOLEAN :
          ov' = << [status |-> IF failed THEN 500 ELSE 200,
                    recentAnalyses |-> IF failed THEN << >> ELSE overviewRecentAnalyses,
                    seen |-> Len(posted)] >>
    /\ UNCHANGED << ingestVars, now, envVars, pureVars, statsVars, textVars, llmVars,
                    dh, menu, web, recentAnalyses, overviewRecentAnalyses, posted >>

InitRoute ==
    /\ InitIdle /\ InitPureIdle /\ InitTextIdle
    /\ serial = TRUE /\ inbox = {}
    /\ users = AnalyzeUsers
    /\ messages = AnalyzeMessages
    /\ usersSeq = 3
    /\ messagesSeq = 5
    /\ delivered = 5
    /\ lastCall = [t \in TelegramIds |-> NoFrom]
    /\ returnedIds = [t \in TelegramIds |-> {}]
    /\ keys \in [Providers -> BOOLEAN]
    /\ geminiModel = "none"
    /\ an = IdleAnalyze
    /\ ad = IdleAdapter
    /\ dg = IdleDigest

NextRoute ==
    \/ PostAnalyze
    \/ RouteFindUser
    \/ RouteTryProvider
    \/ RouteProviderDone
    \/ RouteRespond
    \/ RouteEnd
    \/ GetOverview
    \/ AdapterFindUser
    \/ AdapterGetMessages
    \/ AdapterRequest
    \/ WebGeminiCall

SpecRoute == InitRoute /\ [][NextRoute]_vars

(***************************************************************************)
(* The /stats command and the buttons of its menu (statsHandlers and the   *)
(* bot.action registrations).  One menu message; the handler a button      *)
(* starts is the one registered for its callback data.                     *)
(***************************************************************************)
MaxPresses == 3

\* The periods of the buttons that are pressed.
MenuPeriods == { "today", "all" }

\* '📊 Статистика чата\n\nВыберите опцию:' with createStatsMenu(chatId)
MenuContent == [text |-> [kind |-> "menu", body |-> << >>], keyboard |-> "menu"]

\* '👤 Статистика пользователя\n\nВыберите период:' with createPeriodButtons(chatId)
UserPromptContent == [text |-> [kind |-> "choose period", body |-> << >>],
                      keyboard |-> "periods"]

\* formatGeneralStats(stats, period) with createPeriodButtons(chatId, period)
GeneralContent(stats, period) ==
    [text |-> [kind |-> "general",
               body |-> << [topUsers |-> stats.topUsers,
                            totalMessages |-> stats.totalMessages,
                            totalUsers |-> stats.totalUsers,
                            period |-> period] >>],
     keyboard |-> "periods"]

\* '❌ Произошла ошибка при получении статистики. Попробуйте позже.',
\* 'Произошла ошибка.', 'Произошла ошибка при получении статистики.'
StatsErrorContent == [text |-> [kind |-> "stats error", body |-> << >>], keyboard |-> "none"]

\* The callback data of the buttons of a keyboard, as the bot.action
\* patterns split them: the handler registered for each.
RegisteredHandler(button) ==
    CASE button = "stats:general" -> "general"
      [] button = "stats:user"    -> "user"
      [] button = "stats:period"  -> "period"
      [] button = "stats:menu"    -> "back"

ButtonsOf(keyboard) ==
    CASE keyboard = "menu"    -> { "stats:general", "stats:user" }
      [] keyboard = "periods" -> { "stats:period", "stats:menu" }
      [] keyboard = "none"    -> { }

\* One more Telegram call of a /stats handler.
MenuCalled(m, method, content, result) ==
    [m EXCEPT !.calls = Append(@, [method |-> method, text |-> content.text, ok |-> result = "ok"])]

\* The message after an edit that went through: its mode is what the user
\* chose in the menu.
Edited(m, content, mode) ==
    [m EXCEPT !.message = [text |-> content.text, keyboard |-> content.keyboard,
                           mode |-> mode]]

\* What editMessageText may answer when asked for this content.
EditResults(m, content) ==
    IF m.message.text = content.text /\ m.message.keyboard = content.keyboard
      THEN { "not modified", "failed" }
      ELSE { "ok", "failed" }

\* A run of a handler begins.
MenuBegun(handler, chatId, from, period) ==
    [menu EXCEPT !.handler = handler, !.chatId = chatId, !.from = from,
                 !.period = period, !.calls = << >>, !.failed = FALSE,
                 !.escaped = FALSE, !.result = << >>, !.call = 0]

\* handleStatsCommand: ctx.reply(message, createStatsMenu(chatId))
StatsCommand ==
    /\ menu.pc = "idle"
    /\ menu.presses < MaxPresses
    /\ \E chat \in { c \in Chats : IsGroupChat(c) }, from \in TelegramIds,
          result \in { "ok", "failed" } :
          LET m == MenuCalled(MenuBegun("command", chat.id, from, ""), "reply",
                              MenuContent, result)
          IN  menu' = IF result = "ok"
                        THEN [Edited(m, MenuContent, "none") EXCEPT !.pc = "done"]
                        ELSE [m EXCEPT !.pc = "catchReply", !.failed = TRUE]
    /\ UNCHANGED << ingestVars, now, envVars, pureVars, statsVars, textVars, llmVars,
                    dh, webVars >>

\* A button of the menu message is pressed.  stats:general and stats:period
\* start handleGeneralStats(ctx, chatId) and handlePeriodSelection(ctx,
\* chatId, period), whose first statement is the getChatStats call;
\* stats:user starts handleUserStats and stats:menu handleBackToMenu, which
\* edit the message.
PressButton ==
    /\ menu.pc = "idle"
    /\ menu.presses < MaxPresses
    /\ \E button \in ButtonsOf(menu.message.keyboard), from \in TelegramIds,
          per \in MenuPeriods, result \in { "ok", "failed" }, p \in StatsCalls :
          LET handler == RegisteredHandler(button)
              period  == IF handler = "period" THEN per
                         ELSE IF handler = "general" THEN "all" ELSE ""
              m       == MenuBegun(handler, menu.chatId, from, period)
          IN  IF handler \in { "general", "period" }
                THEN /\ st[p].pc = "idle"
                     /\ menu' = [m EXCEPT !.pc = "stats", !.call = p]
                     /\ st' = [st EXCEPT ![p] =
                                 [IdleCall EXCEPT !.pc = "get", !.kind = "chat",
                                                  !.chatId = menu.chatId,
                                                  !.period = period,
                                                  !.key = getCacheKey(menu.chatId, period,
                                                                      Omitted)]]
                ELSE /\ per = "all" /\ p = 1
                     /\ UNCHANGED st
                     /\ LET content == IF handler = "user" THEN UserPromptContent
                                                           ELSE MenuContent
                            mode    == IF handler = "user" THEN "user" ELSE "none"
                            called  == MenuCalled(m, "editMessageText", content, result)
                        IN  menu' = IF result = "ok"
                                      THEN [Edited(called, content, mode) EXCEPT !.pc = "done"]
                                    ELSE IF handler = "user"
                                      THEN [called EXCEPT !.pc = "catch", !.failed = TRUE]
                                      ELSE [called EXCEPT !.pc = "done", !.failed = TRUE]
    /\ UNCHANGED << ingestVars, now, envVars, pureVars, textVars, llmVars,
                    dh, webVars, cache, asked, ticks >>

\* A query of getChatStats is rejected by the store: the call throws.
MenuQueryFails ==
    /\ menu.pc = "stats" /\ st[menu.call].pc = "query"
    /\ st' = [st EXCEPT ![menu.call] = IdleCall]
    /\ menu' = [menu EXCEPT !.pc = "catch", !.failed = TRUE]
    /\ UNCHANGED << ingestVars, now, envVars, pureVars, textVars, llmVars,
                    dh, webVars, cache, asked, ticks >>

\* getChatStats has returned: formatGeneralStats and editMessageText.  An
\* answer 'message is not modified' ends the handler, any other error goes
\* to the catch block.
MenuShowStats ==
    /\ menu.pc = "stats" /\ st[menu.call].pc = "done"
    /\ LET stats   == st[menu.call].result[1]
           content == GeneralContent(stats, menu.period)
           mode    == IF menu.handler = "general" THEN "general" ELSE menu.message.mode
           m       == [menu EXCEPT !.result = << stats >>]
       IN  \E result \in EditResults(menu, content) :
              LET called == MenuCalled(m, "editMessageText", content, result)
              IN  menu' = IF result = "ok"
                            THEN [Edited(called, content, mode) EXCEPT !.pc = "done"]
                          ELSE IF result = "not modified"
                            THEN [called EXCEPT !.pc = "done"]
                            ELSE [called EXCEPT !.pc = "catch", !.failed = TRUE]
    /\ st' = [st EXCEPT ![menu.call] = IdleCall]
    /\ UNCHANGED << ingestVars, now, envVars, pureVars, textVars, llmVars,
                    dh, webVars, cache, asked, ticks >>

\* The catch block of handleGeneralStats, handlePeriodSelection and
\* handleUserStats: editMessageText with the error text; the first two go
\* on to ctx.reply when it fails, the error leaves handleUserStats.
MenuCatch ==
    /\ menu.pc = "catch"
    /\ \E result \in { "ok", "failed" } :
          LET called == MenuCalled(menu, "editMessageText", StatsErrorContent, result)
          IN  menu' = IF result = "ok"
                        THEN [Edited(called, StatsErrorContent, "none") EXCEPT !.pc = "done"]
                      ELSE IF menu.handler = "user"
                        THEN [called EXCEPT !.pc = "done", !.escaped = TRUE]
                        ELSE [called EXCEPT !.pc = "catchReply"]
    /\ UNCHANGED << ingestVars, now, envVars, pureVars, statsVars, textVars, llmVars,
                    dh, webVars >>

\* ctx.reply with the error text, in a catch block: its failure leaves the
\* handler.
MenuCatchReply ==
    /\ menu.pc = "catchReply"
    /\ \E result \in { "ok", "failed" } :
          menu' = [MenuCalled(menu, "reply", StatsErrorContent, result)
                     EXCEPT !.pc = "done", !.escaped = (result = "failed")]
    /\ UNCHANGED << ingestVars, now, envVars, pureVars, statsVars, textVars, llmVars,
                    dh, webVars >>

\* The handler has ended.
MenuEnd ==
    /\ menu.pc = "done"
    /\ menu' = [menu EXCEPT !.pc = "idle", !.presses = @ + 1]
    /\ UNCHANGED << ingestVars, now, envVars, pureVars, statsVars, textVars, llmVars,
                    dh, webVars >>

InitMenu ==
    /\ InitIdle /\ InitPureIdle /\ InitTextIdle /\ InitLlmIdle
    /\ serial = TRUE /\ inbox = {}
    /\ users = AnalyzeUsers
    /\ messages = DigestMessages
    /\ usersSeq = 3
    /\ messagesSeq = 4
    /\ delivered = 4
    /\ lastCall = [t \in TelegramIds |-> NoFrom]
    /\ returnedIds = [t \in TelegramIds |-> {}]

NextMenu ==
    \/ StatsCommand
    \/ PressButton
    \/ MenuQueryFails
    \/ MenuShowStats
    \/ MenuCatch
    \/ MenuCatchReply
    \/ MenuEnd
    \/ \E p \in StatsCalls :
        \/ CacheGet(p)
        \/ RunTopUsers(p)
        \/ RunGetStats(p)
        \/ CacheSet(p)

SpecMenu == InitMenu /\ [][NextMenu]_vars

(***************************************************************************)
(* Ingestion: properties of Message.create, User.findOrCreate and the      *)
(* text handler.                                                           *)
(***************************************************************************)
SameKey(r1, r2) ==
    r1.telegram_message_id = r2.telegram_message_id /\ r1.chat_id = r2.chat_id

\* Handler h takes its Message.create step.
CreateStep(h) == pc[h] = "create" /\ pc'[h] = "done"

CreateStepIsIdempotent(h) ==
    LET data == CreateMessageData(h)
        old  == { r \in messages : r.telegram_message_id = data.telegram_message_id
                                   /\ r.chat_id = data.chat_id }
    IN  IF old = {}
          THEN /\ Len(ret'[h]) = 1
               /\ ret'[h][1] \in messages'
               /\ ret'[h][1].user_id = data.user_id
               /\ ret'[h][1].text = data.text
               /\ ret'[h][1].telegram_message_id = data.telegram_message_id
               /\ ret'[h][1].chat_id = data.chat_id
               /\ messages' = messages \cup {ret'[h][1]}
          ELSE /\ ret'[h] = << >>
               /\ messages' = messages

\* C1: the store holds at most one row per (telegram_message_id, chat_id);
\* the first Message.create for a key returns the inserted row, every later
\* one for the same key returns null and leaves the stored row unchanged.
C1_IdempotentCreate ==
    /\ [](\A r1, r2 \in messages : SameKey(r1, r2) => r1 = r2)
    /\ [][\A h \in Handlers : CreateStep(h) => CreateStepIsIdempotent(h)]_vars

\* A second create for a stored key, made for another user, returned null.
C1_Witness ==
    \E h \in Handlers :
        /\ pc[h] = "done" /\ outcome[h] = "saved" /\ ret[h] = << >>
        /\ \E r \in messages :
              /\ r.telegram_message_id = upd[h].message_id
              /\ r.chat_id = upd[h].chat.id
              /\ r.user_id # user[h].id

\* The update is a non-command text from a group or supergroup with a sender.
MustBeStored(u) ==
    /\ ~(Len(u.text) > 0 /\ u.text[1] = "/")
    /\ u.chat.type \in {"group", "supergroup"}
    /\ u.from.present

\* C2: every non-command text message from a group/supergroup chat that has
\* a sender ends with its user row upserted and a message row for its
\* (message_id, chat_id) present, for every interleaving of the handlers.
C2_EveryMessageStored ==
    \A h \in Handlers :
        (pc[h] = "done" /\ MustBeStored(upd[h])) =>
            /\ \E r \in users : r.telegram_id = upd[h].from.id
            /\ \E m \in messages : /\ m.telegram_message_id = upd[h].message_id
                                   /\ m.chat_id = upd[h].chat.id

\* The update is a command, or comes from a chat that is not a group.
Excluded(u) ==
    \/ (Len(u.text) > 0 /\ u.text[1] = "/")
    \/ u.chat.type \notin {"group", "supergroup"}

\* The update handler h is working on during a step it takes.
StepUpdate(h) == IF pc[h] = "idle" THEN upd'[h] ELSE upd[h]

\* C3: the text handler never writes to users or messages for a message whose
\* text starts with '/' or whose chat is not a group or supergroup.
C3_ExcludedNotPersisted ==
    [][\A h \in Handlers :
          (pc'[h] # pc[h] /\ Excluded(StepUpdate(h))) =>
              /\ users' = users
              /\ messages' = messages
              /\ pc'[h] \in {"idle", "done"}]_vars

\* A command sent to a group by a known sender was skipped while the store
\* already held rows, and so was a plain text sent in a private chat.
C3_Witness ==
    /\ messages # {}
    /\ \E h \in Handlers :
          /\ pc[h] = "done" /\ outcome[h] = "skipped"
          /\ upd[h].from.present
          /\ \/ upd[h].text[1] = "/" /\ upd[h].chat.type = "group"
             \/ upd[h].text[1] # "/" /\ upd[h].chat.type = "private"

\* No User.findOrCreate call is in flight.
NoFindOrCreateInFlight == \A h \in Handlers : pc[h] \in {"idle", "create", "done"}

\* The value stored for a profile field: absent or empty becomes null.
StoredAs(v) == IF v = UNDEFINED \/ v = "" THEN NULL ELSE v

\* C4: after any sequence of User.findOrCreate calls there is exactly one
\* users row per telegram_id passed, the id returned for a telegram_id is the
\* same on every call, and the row carries the profile of the latest call.
C4_FindOrCreateSequence ==
    /\ \A r1, r2 \in users : r1.telegram_id = r2.telegram_id => r1 = r2
    /\ \A r \in users : r.telegram_id \in TelegramIds /\ lastCall[r.telegram_id].present
    /\ NoFindOrCreateInFlight =>
         \A t \in TelegramIds :
            lastCall[t].present =>
               \E r \in users :
                  /\ r.telegram_id = t
                  /\ returnedIds[t] = {r.id}
                  /\ r.username = StoredAs(lastCall[t].username)
                  /\ r.first_name = StoredAs(lastCall[t].first_name)
                  /\ r.last_name = StoredAs(lastCall[t].last_name)

\* The second call for telegram_id 5 has just returned the row it updated.
C4_Witness ==
    /\ serial
    /\ delivered = 2 /\ usersSeq = 1
    /\ \E m \in messages : \E r \in users : r.telegram_id = 5 /\ m.user_id = r.id
    /\ \E h \in Handlers :
          /\ pc[h] = "create"
          /\ user[h].telegram_id = 5
          /\ user[h].first_name = "Anna"
          /\ user[h] \in users

(***************************************************************************)
(* StatsService.getCacheKey and StatsService.getDateRange.                 *)
(***************************************************************************)
\* The key the argument list is documented to produce.
DocumentedKey(a) ==
    IF Len(a.userId) = 1
      THEN "stats:chat:" \o ToString(a.chatId) \o ":user:" \o ToString(a.userId[1])
               \o ":period:" \o a.period
      ELSE "stats:chat:" \o ToString(a.chatId) \o ":period:" \o a.period

RECURSIVE DaysBeforeYear(_)
DaysBeforeYear(y) ==
    IF y <= 2020 THEN 0
    ELSE DaysBeforeYear(y - 1) + (IF IsLeapYear(y - 1) THEN 366 ELSE 365)

RECURSIVE DaysBeforeMonth(_, _)
DaysBeforeMonth(y, m) ==
    IF m = 0 THEN 0 ELSE DaysBeforeMonth(y, m - 1) + DaysInMonth(y, m - 1)

DayNumber(a) == DaysBeforeYear(a.year) + DaysBeforeMonth(a.year, a.month) + a.date

IsCalendarDay(a) ==
    /\ a.month \in 0..11
    /\ a.date \in 1..DaysInMonth(a.year, a.month)
    /\ a.secs \in 0..(SecondsPerDay - 1)

\* C9: getDateRange returns no bounds for 'all'; for 'today' start is local
\* midnight of the current date and end is now; for 'week' start is now minus
\* 7 days and end is now; in every bounded case start <= end.
C9_DateRange ==
    rangeOut # << >> =>
        LET period == rangeArgs[1].period
            at     == rangeArgs[1].at
            range  == rangeOut[1]
        IN  /\ period = "all" => DOMAIN range = {}
            /\ period = "today" =>
                  /\ DOMAIN range = {"startDate", "endDate"}
                  /\ range.startDate = [year |-> at.year, month |-> at.month,
                                        date |-> at.date, secs |-> 0]
                  /\ range.endDate = at
            /\ period = "week" =>
                  /\ DOMAIN range = {"startDate", "endDate"}
                  /\ IsCalendarDay(range.startDate)
                  /\ DayNumber(range.startDate) = DayNumber(at) - 7
                  /\ range.startDate.secs = at.secs
                  /\ range.endDate = at
            /\ DOMAIN range # {} =>
                  \/ range.startDate.year < range.endDate.year
                  \/ /\ range.startDate.year = range.endDate.year
                     /\ DayNumber(range.startDate) < DayNumber(range.endDate)
                  \/ /\ range.startDate.year = range.endDate.year
                     /\ DayNumber(range.startDate) = DayNumber(range.endDate)
                     /\ range.startDate.secs <= range.endDate.secs

\* 'week' was asked in the first days of January: the start lies in December
\* of the year before.
C9_Witness ==
    /\ rangeOut # << >>
    /\ rangeArgs[1].period = "week"
    /\ rangeArgs[1].at.month = 0 /\ rangeArgs[1].at.date = 3
    /\ rangeOut[1].startDate.year = rangeArgs[1].at.year - 1
    /\ rangeOut[1].startDate.month = 11 /\ rangeOut[1].startDate.date = 27

\* C10: for 'month' and every now, the start date lies in the calendar month
\* immediately preceding now's month (December of the previous year when now
\* is in January).
C10_MonthStartsInPreviousMonth ==
    (rangeOut # << >> /\ rangeArgs[1].period = "month") =>
        LET at == rangeArgs[1].at
            start == rangeOut[1].startDate
        IN  IF at.month = 0
              THEN start.year = at.year - 1 /\ start.month = 11
              ELSE start.year = at.year /\ start.month = at.month - 1

(***************************************************************************)
(* StatsService.getChatStats / getUserStats and the cache.                 *)
(***************************************************************************)
\* The arguments of the call, as getCacheKey receives them.
KeyArgsOf(c) ==
    [chatId |-> c.chatId, period |-> c.period,
     userId |-> IF c.kind = "user" THEN << c.userId >> ELSE << >>]

\* The unexpired entries the cache holds under the key of the call.
HeldFor(c) ==
    { e \in cache : e.key = DocumentedKey(KeyArgsOf(c)) /\ ~DateLE(e.expiresAt, now) }

\* Call p gets the answer of its cache read.
ReadStep(p) == st[p].pc = "get" /\ st'[p].pc # "get"

\* C5: when the cache holds an unexpired entry under the key of the call (and
\* the read succeeds), getChatStats and getUserStats return the deserialized
\* entry and issue no query to the Message Store and no cache write.
C5_HitSkipsStore ==
    [][\A p \in StatsCalls :
          (ReadStep(p) /\ HeldFor(st[p]) # {} /\ st'[p].readError = "none") =>
              /\ \E e \in HeldFor(st[p]) : st'[p].result = e.value.json
              /\ st'[p].pc = "done"
              /\ st'[p].outcome = "returned"
              /\ st'[p].queries = 0
              /\ st'[p].writes = 0
              /\ cache' = cache
              /\ messages' = messages /\ users' = users]_vars

\* A chat-wide value was served from the cache although the chat has more
\* messages by now: the store was not consulted.
C5_Witness ==
    \E p \in StatsCalls :
        /\ st[p].pc = "done" /\ st[p].source = "cache"
        /\ st[p].kind = "chat" /\ st[p].period = "all"
        /\ st[p].queries = 0
        /\ st[p].result[1].totalMessages
              < Cardinality({ m \in messages : m.chat_id = st[p].chatId
                                               /\ m.id <= st[p].kReturn })

\* The store as it was when the last row with id <= k had been inserted
\* (rows are only ever inserted, with increasing ids).
StoreAt(k) == { m \in messages : m.id <= k }

\* (user_id, count) of the rows of a topUsers list
CountsOf(top) == { [user_id |-> top[i].user_id, count |-> top[i].count] : i \in DOMAIN top }

\* The value is the aggregate of the given store contents, for the chat and
\* the date range of the call that computed it: topUsers from msgsTop, the
\* totals (or the user's message count) from msgsStats.
IsAggregateOf(c, msgsTop, msgsStats) ==
    LET range == getDateRange(c.period, c.meta.rangeAt)
        v     == c.result[1]
    IN  IF c.kind = "chat"
          THEN /\ CountsOf(v.topUsers) =
                     { [user_id |-> r.user_id, count |-> r.count] :
                         r \in TopUserRows(msgsTop, users, c.chatId, range) }
               /\ Len(v.topUsers) = Cardinality(CountsOf(v.topUsers))
               /\ \A i, j \in DOMAIN v.topUsers :
                     i < j => v.topUsers[i].count >= v.topUsers[j].count
               /\ v.totalMessages = getStats(msgsStats, c.chatId, range).totalMessages
               /\ v.totalUsers = getStats(msgsStats, c.chatId, range).totalUsers
          ELSE /\ \E u \in users : u.telegram_id = c.userId /\ u.id = v.userId
               /\ v.messageCount = countByUserId(msgsStats, v.userId, c.chatId, range)
               /\ v.period = c.period

\* Each query result in the value is the aggregate of the store at the
\* instant that query ran.
MatchesItsQueries(c) == IsAggregateOf(c, StoreAt(c.meta.kTop), StoreAt(c.meta.kStats))

\* C6: a failure of the cache read (an undeserializable entry included) or
\* of the cache write never makes getChatStats or getUserStats fail: the
\* call returns the value freshly computed from the Message Store.
C6_CacheFailuresAreSoft ==
    \A p \in StatsCalls :
        (st[p].pc = "done" /\ (st[p].readError # "none" \/ st[p].writeError)) =>
            /\ st[p].outcome = "returned"
            /\ st[p].source = "store"
            /\ st[p].queries >= 1
            /\ st[p].result = << >> =>
                  /\ st[p].kind = "user"
                  /\ ~\E u \in users : u.telegram_id = st[p].userId /\ u.id <= st[p].meta.kUser
            /\ st[p].result # << >> =>
                  /\ st[p].queries = 2
                  /\ MatchesItsQueries(st[p])

\* A call whose cache read hit an undeserializable entry and whose cache
\* write failed as well has returned a value.
C6_Witness ==
    \E p \in StatsCalls :
        /\ st[p].pc = "done"
        /\ st[p].readError = "parse" /\ st[p].writeError
        /\ st[p].result # << >>
        /\ st[p].returnedAt = now
        /\ HeldFor(st[p]) # {}

\* The store equalled StoreAt(k) at some instant no more than CACHE_TTL
\* seconds before the time t: every row inserted after it was inserted no
\* earlier than CACHE_TTL seconds before t.
WasStoreWithinTTL(k, t) ==
    \A m \in messages : m.id > k => DateLE(t, AddSeconds(m.created_at, CACHE_TTL))

\* C7: every value returned by getChatStats or getUserStats equals
\* the aggregate of the Message Store as it was at some instant no more than
\* CACHE_TTL seconds before the return.
C7_SnapshotWithinTTL ==
    \A p \in StatsCalls :
        (st[p].pc = "done" /\ st[p].result # << >>) =>
            \E k \in 0..st[p].kReturn :
                /\ WasStoreWithinTTL(k, st[p].returnedAt)
                /\ IsAggregateOf(st[p], StoreAt(k), StoreAt(k))

(***************************************************************************)
(* The prompt builders and the response parser.                            *)
(***************************************************************************)
\* The character budget of the builder that was called.
BudgetOf(builder) == IF builder = "analysis" THEN 6000 ELSE 8000

\* The builder was called on a message list whose joined text exceeds the budget.
PromptWasTruncated ==
    /\ promptOut # << >>
    /\ JoinedLength(promptArgs[1].messages) > BudgetOf(promptArgs[1].builder)

\* The last k elements of a list of at least k elements.
LastOf(seq, k) == [i \in 1..k |-> seq[Len(seq) - k + i]]

\* C13: when the joined text of N messages exceeds the budget (6000 for the
\* analysis prompt, 8000 for the digest prompt), exactly the last
\* ceil(N*0.6) messages are kept, for every N >= 1, and the joined text of
\* the kept messages is never longer than the original joined text.
C13_KeepsLastCeil ==
    PromptWasTruncated =>
        LET given == promptArgs[1].messages
        IN  /\ promptOut[1].messages = LastOf(given, (Len(given) * 6 + 9) \div 10)
            /\ promptOut[1].length <= JoinedLength(given)

\* C13, amended: the messages kept are the last floor(N*0.6) of the list,
\* and the whole list when floor(N*0.6) is 0 (N = 1); the joined text of the
\* kept messages is never longer than the original joined text.
C13_KeepsLastFloor ==
    PromptWasTruncated =>
        LET given == promptArgs[1].messages
            k     == (Len(given) * 6) \div 10
        IN  /\ promptOut[1].messages = IF k = 0 THEN given ELSE LastOf(given, k)
            /\ promptOut[1].length = JoinedLength(promptOut[1].messages)
            /\ promptOut[1].length <= JoinedLength(given)

\* Three messages over the budget of the analysis prompt were cut to the last one.
C13_Witness ==
    /\ PromptWasTruncated
    /\ promptArgs[1].builder = "analysis"
    /\ Len(promptArgs[1].messages) = 3
    /\ promptOut[1].messages = << promptArgs[1].messages[3] >>
    /\ promptArgs[1].messages[3] # promptArgs[1].messages[1]

\* The lines of the parsed text, trimmed.
GivenLines == [i \in DOMAIN parseArgs[1] |-> Trim(parseArgs[1][i])]

\* The positions of the lines that start with the label, whatever its case.
LinesWith(lines, w) ==
    { i \in DOMAIN lines : /\ Len(lines[i]) >= 2
                           /\ ToLowerCase(lines[i][1]) = w
                           /\ lines[i][2] = ":" }

\* What the claim says the field of label w is, for these trimmed lines.
ExpectedField(lines, w) ==
    IF LinesWith(lines, w) = {} THEN NotSpecified[w]
    ELSE LET last == CHOOSE i \in LinesWith(lines, w) :
                        \A j \in LinesWith(lines, w) : j <= i
         IN  Trim(SubSeq(lines[last], 3, Len(lines[last])))

LabelSet == { LabelWords[i] : i \in DOMAIN LabelWords }

\* The same lines in another order.
Reordered(lines) ==
    { [i \in DOMAIN lines |-> lines[f[i]]] :
        f \in { g \in [DOMAIN lines -> DOMAIN lines] :
                  \A i, j \in DOMAIN lines : i # j => g[i] # g[j] } }

\* C19: the parser returns, for each of the five labels, the trimmed
\* remainder of the last non-empty trimmed line that starts with the label
\* (case-insensitively), whatever the order of the lines and the blank lines
\* between them, and the 'not specified' sentinel for a label no line starts
\* with; it produces a record for every input text.
C19_LastLabelledLineWins ==
    parseOut # << >> =>
        LET raw == parseArgs[1]
            out == parseOut[1]
            nonBlank == SelectSeq(raw, LAMBDA l : Trim(l) # << >>)
        IN  /\ \A w \in LabelSet : out[w] = ExpectedField(GivenLines, w)
            /\ parseAnalysisResponse(JoinLines(nonBlank), 3, 12) = out
            /\ (\A w \in LabelSet : Cardinality(LinesWith(GivenLines, w)) <= 1) =>
                  \A other \in Reordered(raw) :
                      parseAnalysisResponse(JoinLines(other), 3, 12) = out

\* Two lines carry the style label in different cases, a blank line stands
\* between them, and the later one gave the value.
C19_Witness ==
    /\ parseOut # << >>
    /\ Len(parseArgs[1]) = 3
    /\ parseArgs[1][1] = << "Style", ":", " ", "a" >>
    /\ Trim(parseArgs[1][2]) = << >>
    /\ parseArgs[1][3] = << " ", "STYLE", ":", "b", " " >>
    /\ parseOut[1].style = << "b" >>
    /\ parseOut[1].topics = NotSpecified.topics

(***************************************************************************)
(* LLM analysis: properties.                                               *)
(***************************************************************************)
\* The rows of the store the finished or running analyzeUser call is about.
TargetRows(a) ==
    IF a.variant = "bot" THEN { u \in users : u.telegram_id = a.target }
                         ELSE { u \in users : u.username = a.name }

TargetMessages(a) == { m \in messages : \E u \in TargetRows(a) : m.user_id = u.id }

ReturnedNull(a) == a.outcome = "returned" /\ a.value = << >>

\* An analyzeUser call of one of the bot's three adapters has ended.
BotCallEnded == ad.pc = "done" /\ ad.variant = "bot"

ZeroMessageCallEnded ==
    /\ ad.pc = "done"
    /\ TargetRows(ad) # {}
    /\ TargetMessages(ad) = {}

\* The record is the fixed one, counts no message and has no empty text.
IsSentinel(v) ==
    /\ v = << InsufficientData >>
    /\ v[1].messageCount = 0
    /\ \A f \in { "style", "topics", "averageLength", "activity", "tone",
                  "features", "period" } : v[1][f] # << >>

\* C12: analyzeUser (bot and dashboard variants) on a known user with zero
\* stored messages returns the fixed 'insufficient data' record with
\* messageCount = 0 and every text field non-empty, and sends no request to
\* the provider.
C12_ZeroMessagesSentinel ==
    ZeroMessageCallEnded =>
        /\ ad.outcome = "returned"
        /\ IsSentinel(ad.value)
        /\ ad.requests = 0

\* C12, amended: the same when the provider's API key is configured;
\* without the key the call raises, and also then no request is sent.
C12_ZeroMessagesSentinelGivenKey ==
    ZeroMessageCallEnded =>
        /\ keys[ad.provider] => ad.outcome = "returned" /\ IsSentinel(ad.value)
        /\ ~keys[ad.provider] => ad.outcome = "raised"
        /\ ad.requests = 0
        /\ ad.tried = << >>

\* The dashboard's analyzeUserWithQwen returned the sentinel for bob, who
\* is known and has no stored message.
C12_Witness ==
    /\ ZeroMessageCallEnded
    /\ ad.variant = "web" /\ ad.provider = "Qwen" /\ ad.name = "bob"
    /\ ad.outcome = "returned" /\ IsSentinel(ad.value)
    /\ ad.requests = 0

\* The rows whose texts the prompt of the running call holds, and the rows
\* the truncation left out.
KeptRows(a) ==
    { a.rows[i] : i \in { k \in DOMAIN a.rows :
                            \E j \in DOMAIN a.prompt[1].messages :
                                a.prompt[1].messages[j] = a.rows[k].text } }

DroppedRows(a) == { a.rows[i] : i \in DOMAIN a.rows } \ KeptRows(a)

AnalysisPromptTruncated ==
    /\ ad.prompt # << >>
    /\ Len(ad.prompt[1].messages) < Len(ad.rows)

\* C14: when the analysis prompt is truncated, the messages kept are the
\* most recent ones by creation time and the messages dropped are the
\* oldest ones: no dropped message is newer than a kept one.
C14_KeepsMostRecent ==
    AnalysisPromptTruncated =>
        \A kept \in KeptRows(ad), dropped \in DroppedRows(ad) :
            DateLE(dropped.created_at, kept.created_at)

\* A failure with a rate-limit (429) error: the status is 429 or the
\* message names 429.
Is429(h) == /\ ~h.ok
            /\ h.error[1].status = 429 \/ "429" \in h.error[1].mentions

\* A retryWithBackoff invocation of GeminiService.analyzeUser is under way
\* or has ended.
RetryBegun == ad.pc \in { "request", "done" } /\ ad.rb.max > 0

\* C15: retryWithBackoff(fn, maxRetries) calls fn at most maxRetries times
\* (3 for the model in use), calls it again only after the previous call
\* failed with a rate-limit (429) error, returns the result of the first
\* call that succeeds, raises at once the first failure that is not a 429,
\* and has returned or raised after at most maxRetries calls.
C15_RetryOnlyOnRateLimit ==
    RetryBegun =>
        LET rb == ad.rb
            n  == Len(rb.history)
        IN  /\ rb.calls = n /\ n <= rb.max
            /\ rb.round = 0 => rb.max = 3
            /\ \A i \in 1..(n - 1) : Is429(rb.history[i])
            /\ rb.done <=> n >= 1 /\ (~Is429(rb.history[n]) \/ n = rb.max)
            /\ rb.done /\ rb.history[n].ok =>
                  rb.outcome = "returned" /\ rb.text = rb.history[n].text
            /\ rb.done /\ ~rb.history[n].ok =>
                  rb.outcome = "raised" /\ rb.error = rb.history[n].error

\* Two calls on the model in use failed with 429, the third succeeded and
\* its text was returned.
C15_Witness ==
    /\ RetryBegun /\ ad.rb.round = 0 /\ ad.rb.done
    /\ ad.rb.calls = 3
    /\ Is429(ad.rb.history[1]) /\ Is429(ad.rb.history[2])
    /\ ad.rb.history[3].ok
    /\ ad.rb.outcome = "returned" /\ ad.rb.text = AnswerText

\* GeminiService.analyzeUser has sent a request, or has ended after one.
GeminiBotCall ==
    /\ ad.variant = "bot" /\ ad.provider = "Gemini"
    /\ ad.pc \in { "request", "done" }
    /\ ad.rb.max > 0

\* The model in use failed with a 404 that none of the tests for 429, 400
\* and 403 comes before.
FailedWith404(a) ==
    /\ a.primaryError # << >>
    /\ a.primaryError[1].status = 404 \/ "404" \in a.primaryError[1].mentions
    /\ a.primaryError[1].status \notin { 429, 400, 403 }

\* C16: a 404 failure of the model in use starts the fallback; the
\* fallback models are tried in their listed order, each only after every
\* earlier model failed; the call succeeds with the response of the first
\* model that succeeds and raises only after every model of the list has
\* failed; a failure with status 429, 400 or 403 of the model in use does
\* not start the fallback.
C16_FallbackOn404 ==
    GeminiBotCall =>
        LET tried == ad.tried
            n     == Len(tried)
        IN  /\ n <= 1 + Len(fallbackModels)
            /\ \A i \in 2..n : /\ tried[i].model = fallbackModels[i - 1]
                               /\ \A j \in 1..(i - 1) : ~tried[j].ok
            /\ n >= 1 => (tried[1].ok <=> ad.primaryError = << >>)
            /\ ad.rb.round >= 1 => FailedWith404(ad)
            /\ FailedWith404(ad) => ad.rb.round >= 1
            /\ ad.rb.round >= 1 => /\ ad.rb.model = fallbackModels[ad.rb.round]
                                   /\ n >= ad.rb.round
            /\ ad.primaryError # << >> /\ ad.primaryError[1].status \in { 429, 400, 403 } =>
                  ad.pc = "done" /\ ad.outcome = "raised" /\ n = 1
            /\ ad.pc = "done" /\ ad.outcome = "returned" =>
                  /\ tried[n].ok
                  /\ ad.value = << parseAnalysisResponse(ad.rb.text, Len(ad.rows),
                                                         ad.averageLength) >>
            /\ ad.pc = "done" /\ ad.outcome = "raised" /\ n > 1 =>
                  /\ n = 1 + Len(fallbackModels)
                  /\ \A i \in 1..n : ~tried[i].ok

\* The model in use failed with 404, the first fallback model failed, the
\* second one answered and the call returned its analysis.
C16_Witness ==
    /\ GeminiBotCall /\ ad.pc = "done" /\ ad.outcome = "returned"
    /\ Len(ad.tried) = 3
    /\ FailedWith404(ad)
    /\ ad.tried[2].model = "gemini-2.5-flash" /\ ~ad.tried[2].ok
    /\ ad.tried[3].model = "gemini-2.5-pro" /\ ad.tried[3].ok

\* The place of a provider in the order DeepSeek, Qwen, Gemini.
Rank(p) == CASE p = "DeepSeek" -> 1 [] p = "Qwen" -> 2 [] p = "Gemini" -> 3

FailedProviders(a) == { a.failures[i].provider : i \in DOMAIN a.failures }

\* C17: /analyze attempts the providers in the order DeepSeek, Qwen,
\* Gemini; a provider is attempted only if it is available and every
\* earlier provider was unavailable or raised; once a provider has
\* returned no later one is attempted; each provider is attempted at most
\* once and at most one result is used.
C17_ProviderOrder ==
    LET att == an.attempts
        n   == Len(att)
    IN  /\ \A i, j \in 1..n : i < j => Rank(att[i]) < Rank(att[j])
        /\ \A i \in 1..n :
              /\ keys[att[i]]
              /\ \A q \in Providers :
                    Rank(q) < Rank(att[i]) => ~keys[q] \/ q \in FailedProviders(an)
        /\ ad.caller = "handler" => /\ n >= 1 /\ ad.provider = att[n]
                                    /\ ad.target = an.target
        /\ an.usedService # "" =>
              /\ n >= 1 /\ an.usedService = att[n]
              /\ an.usedService \notin FailedProviders(an)
              /\ Cardinality(FailedProviders(an)) = n - 1
              /\ an.pc \in { "finish", "done" }
        /\ an.usedService = "" => an.analysis = << >>
        /\ an.pc = "done" /\ an.shown = "analysis" => an.usedService # ""

\* DeepSeek raised, Qwen has no key and was skipped, Gemini returned the
\* analysis that is shown.
C17_Witness ==
    /\ an.pc = "done" /\ an.shown = "analysis"
    /\ an.attempts = << "DeepSeek", "Gemini" >>
    /\ ~keys["Qwen"]
    /\ FailedProviders(an) = { "DeepSeek" }
    /\ an.usedService = "Gemini"

\* The command ended without an analysis although the user is known.
AnalyzeFailed == an.pc = "done" /\ an.thrown # << >>

DeepSeekOutOfBalance(a) ==
    \E i \in DOMAIN a.failures :
        /\ a.failures[i].provider = "DeepSeek"
        /\ "INSUFFICIENT_BALANCE" \in a.failures[i].error.mentions

DigestRank(p) == CASE p = "Qwen" -> 1 [] p = "Gemini" -> 2 [] p = "DeepSeek" -> 3

\* The provider answered with a text that is not empty.
AnsweredWithText(a) == a.error = << >> /\ a.text[1] # << >>

\* C20: generateWithLLM tries Qwen, then Gemini, then DeepSeek, skips a
\* provider that is not available, sends at most one request to each,
\* returns the text of the first provider that answers with non-empty text
\* without contacting a later one, and raises only when no provider
\* succeeded: the last provider error, or the 'all providers unavailable'
\* error when none was attempted.
C20_FirstNonEmptyAnswer ==
    LET con == dg.contacted
        n   == Len(con)
        ans == dg.answers
    IN  /\ \A i, j \in 1..n : i < j => DigestRank(con[i]) < DigestRank(con[j])
        /\ \A i \in 1..n : keys[con[i]]
        /\ \A i \in DOMAIN ans : ans[i].provider = con[i]
        /\ \A i \in 1..(n - 1) : i \in DOMAIN ans /\ ~AnsweredWithText(ans[i])
        /\ dg.pc = "done" /\ dg.outcome = "returned" =>
              /\ Len(ans) = n /\ n >= 1
              /\ AnsweredWithText(ans[n])
              /\ dg.text = ans[n].text[1]
        /\ dg.pc = "done" /\ dg.outcome = "raised" =>
              /\ Len(ans) = n
              /\ \A p \in Providers : keys[p] => \E i \in 1..n : con[i] = p
              /\ \A i \in 1..n : ~AnsweredWithText(ans[i])
              /\ dg.error = IF n = 0 THEN << AllUnavailableError >> ELSE ans[n].error

(***************************************************************************)
(* Response parser: every field has a text.                                *)
(***************************************************************************)
\* C29: every text field (style, topics, activity, tone, features) of the
\* record the response parser builds is a non-empty string, for every
\* response text: text taken from the response or the 'not specified'
\* sentinel, never the empty string.
C29_FieldsNeverEmpty ==
    parseOut # << >> => \A w \in LabelSet : parseOut[1][w] # << >>

\* The lines of the 'Action items:' section of an answer, as the claim
\* reads them: trimmed, their bullet markers stripped, the blank ones
\* dropped, in their order.
SectionItems(raw) ==
    ItemLines(TrimText(GroupOr(MatchSection(raw, ActionLabels, ContextLabels), << >>)))

\* C21: the actionItems list of a DigestResult is never empty: it is the
\* single 'no explicit tasks' sentinel entry when the 'Action items:'
\* section is missing, empty or without item text once the bullet markers
\* are stripped, and otherwise the trimmed, marker-stripped non-blank lines
\* of the section in their original order.
C21_ActionItemsNeverEmpty ==
    parseOut # << >> =>
        /\ parseOut[1].actionItems # << >>
        /\ parseOut[1].actionItems =
             IF SectionItems(parseArgs[1]) = << >> THEN NoExplicitTasks
                                                   ELSE SectionItems(parseArgs[1])

(***************************************************************************)
(* /digest: a chat without messages today.                                 *)
(***************************************************************************)
\* The chat of the command has a stored message inside the window of today.
HasMessageToday ==
    \E m \in messages :
        /\ m.chat_id = dh.chat.id
        /\ DateLE(MakeDate(now.year, now.month, now.date, 0), m.created_at)
        /\ DateLE(m.created_at, now)

\* The query of generateDigest has answered.
DigestQueryAnswered == dh.pc \in { "llm", "waiting" } \/ dh.digest # "none"

\* The editMessageText calls the handler has made, in their order.
EditCalls == SelectSeq(dh.calls, LAMBDA c : c.method = "editMessageText")

\* C22: when the chat has no stored message inside the requested window,
\* generateDigest returns null without building a prompt or contacting any
\* LLM provider, and the /digest handler then edits its placeholder message
\* to the 'nothing to digest' text instead of a digest.
C22_NullWithoutLlm ==
    /\ DigestQueryAnswered /\ ~HasMessageToday => dh.digest = "null"
    /\ dh.digest = "null" =>
          /\ dh.prompt = << >>
          /\ dh.llmCalls = 0
          /\ dg.pc = "idle" /\ dg.contacted = << >>
          /\ \A i \in DOMAIN dh.calls : dh.calls[i].text.kind # "digest"
          /\ dh.pc # "edit" => /\ EditCalls # << >>
                               /\ EditCalls[1].text = NothingToDigestText

C22_Witness ==
    /\ dh.pc = "done" /\ dh.digest = "null" /\ ~HasMessageToday
    /\ dh.calls = << [method |-> "reply", text |-> PlaceholderText, ok |-> TRUE],
                     [method |-> "editMessageText", text |-> NothingToDigestText,
                      ok |-> TRUE] >>

(***************************************************************************)
(* DeepSeekService.analyzeUser: one request, no retry.                     *)
(***************************************************************************)
\* A DeepSeek call whose request has been answered.
DeepSeekAnswered(response) ==
    ad.provider = "DeepSeek" /\ ad.pc = "done" /\ ad.response = response

\* C25: DeepSeekService.analyzeUser sends exactly one request and never
\* retries; a response with status 402 raises the distinguished
\* insufficient-balance error, any other non-success status raises a
\* generic API error carrying the status and body text, and an empty
\* completion text raises an error rather than producing a result.
C25_OneRequestNoRetry ==
    /\ ad.provider = "DeepSeek" => ad.requests <= 1 /\ ad.rb = NoRetry
    /\ ad.provider = "DeepSeek" /\ ad.response # "none" => ad.requests = 1 /\ ad.pc = "done"
    /\ DeepSeekAnswered("402") =>
          ad.outcome = "raised" /\ ad.error = << InsufficientBalanceError >>
    /\ \A status \in { 429, 500 } :
          DeepSeekAnswered(ToString(status)) =>
              /\ ad.outcome = "raised"
              /\ ad.error[1] # InsufficientBalanceError
              /\ MessageIncludes(ad.error[1], ToString(status))
              /\ MessageIncludes(ad.error[1], ErrorBody)
    /\ DeepSeekAnswered("empty") => ad.outcome = "raised" /\ ad.value = << >>
    /\ DeepSeekAnswered("text") => ad.outcome = "returned"

C25_Witness ==
    /\ DeepSeekAnswered("402") /\ ad.requests = 1
    /\ ad.error = << InsufficientBalanceError >>

(***************************************************************************)
(* GeminiService.model between calls.                                      *)
(***************************************************************************)
\* C27: the retry and model-fallback state of Gemini is local to one
\* analyzeUser call: the model to which a call sends its first request is
\* the model chosen at initialization, whether or not an earlier call went
\* through the model fallback and however that fallback ended.
C27_FirstModelIsInitial ==
    GeminiBotCall /\ ad.rb.round = 0 => ad.rb.model = InitialGeminiModel

(***************************************************************************)
(* getChatStats: the parts of one result.                                  *)
(***************************************************************************)
RECURSIVE SumOfCounts(_)
SumOfCounts(top) ==
    IF top = << >> THEN 0 ELSE Head(top).count + SumOfCounts(Tail(top))

\* C28: every StatsResult returned by getChatStats, freshly computed or
\* served from the cache, is consistent in itself even when messages are
\* ingested while it is computed: the counts in topUsers sum to at most
\* totalMessages and topUsers has at most totalUsers entries.
C28_ResultConsistent ==
    \A p \in StatsCalls :
        (st[p].pc = "done" /\ st[p].kind = "chat" /\ st[p].result # << >>) =>
            /\ SumOfCounts(st[p].result[1].topUsers) <= st[p].result[1].totalMessages
            /\ Len(st[p].result[1].topUsers) <= st[p].result[1].totalUsers

(***************************************************************************)
(* POST /api/analyze: the answers.                                         *)
(***************************************************************************)
\* The username with only a leading '@' removed, trimmed.
WithoutLeadingAt(chars) ==
    JoinChars(Trim(IF chars # << >> /\ Head(chars) = "@" THEN Tail(chars) ELSE chars))

\* The request was answered, and neither the reading of the body nor the
\* query of the store failed.
RouteAnswered ==
    /\ web.pc = "done"
    /\ web.answer[1].error \notin { << AnalysisFailed(JsonError) >>,
                                    << AnalysisFailed(StoreError) >> }

\* The providers the request is to run, in their order.
RequestedServices ==
    LET order == RouteOrder(web.body.provider)
    IN  [i \in DOMAIN order |-> ServiceOf(order[i])]

IsPrefix(s, t) == Len(s) <= Len(t) /\ \A i \in DOMAIN s : s[i] = t[i]

\* C23: POST /api/analyze removes only a leading '@' from the username,
\* answers 400 when the username is missing or empty after cleaning, 404
\* when no user has that username, before any provider is contacted,
\* otherwise runs only the requested provider when it is one of qwen,
\* gemini, deepseek, or else the fixed auto order, and answers 200 with the
\* analysis on the first success or 500 with an error when every attempted
\* provider failed.
C23_PostAnswers ==
    RouteAnswered =>
        LET name    == WithoutLeadingAt(web.body.chars)
            missing == web.body.kind # "string" \/ name = ""
            n       == Len(web.attempts)
        IN  /\ missing <=> web.status = 400
            /\ ~missing => web.clean = name
            /\ ~missing /\ findByUsername(name) = {} <=> web.status = 404
            /\ web.status \in { 400, 404 } => n = 0
            /\ web.status \in { 200, 400, 404, 500 }
            /\ web.status \in { 200, 500 } =>
                  /\ n >= 1
                  /\ IsPrefix(web.attempts, RequestedServices)
                  /\ \A i \in 1..(n - 1) : web.outcomes[i] # "analysis"
            /\ web.status = 200 =>
                  /\ web.outcomes[n] = "analysis"
                  /\ web.answer[1].analysis = web.analysis /\ web.analysis # << >>
            /\ web.status = 500 =>
                  /\ web.attempts = RequestedServices
                  /\ web.outcomes[n] # "analysis"
                  /\ web.answer[1].error # << >>

(***************************************************************************)
(* GET /api/overview: the recent analyses.                                 *)
(***************************************************************************)
\* The usernames of the answers with status 200 of a history, newest first.
RECURSIVE SuccessesNewestFirst(_)
SuccessesNewestFirst(history) ==
    IF history = << >> THEN << >>
    ELSE LET last == history[Len(history)]
             rest == SuccessesNewestFirst(SubSeq(history, 1, Len(history) - 1))
         IN  IF last.status = 200 THEN << last.username >> \o rest ELSE rest

\* C30: after any sequence of POST /api/analyze requests, the
\* recentAnalyses list returned by GET /api/overview holds the usernames of
\* the most recent successful analyses, newest first, with at most 10
\* entries; a failed or rejected request (400, 404, 500) adds no entry.
C30_OverviewRecent ==
    ov # << >> /\ ov[1].status = 200 =>
        LET expected == SuccessesNewestFirst(SubSeq(posted, 1, ov[1].seen))
            got      == [i \in DOMAIN ov[1].recentAnalyses |->
                           ov[1].recentAnalyses[i].username]
        IN  /\ Len(got) <= RecentLimit
            /\ got = SubSeq(expected, 1, Min(Len(expected), RecentLimit))

(***************************************************************************)
(* The /stats menu: what a button shows.                                   *)
(***************************************************************************)
\* No step of the handler failed, and its Telegram call was an edit of the
\* menu message that went through.
EditedInPlace ==
    /\ menu.pc = "done" /\ menu.calls # << >> /\ ~menu.failed
    /\ menu.calls[Len(menu.calls)].ok
    /\ menu.calls[Len(menu.calls)].method = "editMessageText"

\* The per-user view: formatUserStats of getUserStats(chatId, from, period)
\* for the user who pressed the button.
UserViewTexts ==
    { [kind |-> "user",
       body |-> << [userId |-> u.id,
                    messageCount |-> countByUserId(messages, u.id, menu.chatId,
                                                   getDateRange(menu.period, now)),
                    period |-> menu.period] >>] : u \in findByTelegramId(menu.from) }

\* C26: in the /stats menu, pressing 'user statistics' and then a period
\* button renders the per-user view (the message count of the pressing user
\* for that chat and period, from getUserStats) in the same message;
\* pressing 'general statistics' and then a period renders the chat-wide
\* view; 'back' returns to the menu.
C26_MenuViews ==
    EditedInPlace =>
        /\ menu.handler = "user" =>
              menu.message.text = UserPromptContent.text /\ menu.message.keyboard = "periods"
        /\ menu.handler = "back" =>
              menu.message.text = MenuContent.text /\ menu.message.keyboard = "menu"
        /\ menu.handler = "general" =>
              menu.message.text = GeneralContent(menu.result[1], "all").text
        /\ menu.handler = "period" /\ menu.message.mode = "general" =>
              menu.message.text = GeneralContent(menu.result[1], menu.period).text
        /\ menu.handler = "period" /\ menu.message.mode = "user" =>
              menu.message.text \in UserViewTexts

(***************************************************************************)
(* Errors and the command handlers.                                        *)
(***************************************************************************)
\* The runs of the /digest handler and of the /stats handlers: whether a
\* step has failed, the Telegram calls made, whether an error left the
\* handler.
HandlerRuns ==
    { [pc |-> dh.pc, calls |-> dh.calls, escaped |-> dh.escaped,
       failed |-> \/ \E i \in DOMAIN dh.calls : ~dh.calls[i].ok
                  \/ \E i \in DOMAIN dh.calls : dh.calls[i].text = DigestFailedText],
      [pc |-> menu.pc, calls |-> menu.calls, escaped |-> menu.escaped,
       failed |-> menu.failed] }

ErrorTexts == { DigestFailedText, DigestErrorText, StatsErrorContent.text }

\* C24: a failure never escapes a command handler: whatever step fails (a
\* query of the store, the cache, the LLM call, or a Telegram send or edit
\* call), the handler finishes without raising and the user has been sent or
\* shown an error message.
C24_ErrorsStayInside ==
    \A h \in HandlerRuns :
        h.pc = "done" =>
            /\ ~h.escaped
            /\ h.failed => \E i \in DOMAIN h.calls : h.calls[i].ok /\ h.calls[i].text \in ErrorTexts

====
